---- MODULE Spec2Model ----
(***************************************************************************)
(* A model of the data-ingestion pipeline of FAM_backend:                  *)
(*   - the request gate of datafeed/provider.py (Provider.make_request)    *)
(*     and the worker threads that pass through it before a provider call, *)
(*   - the interval scheduler of datafeed/assetclass.py (on_interval,      *)
(*     requires_update, do_update) driven by the loop of datalink.py,      *)
(*   - the daily candle sync and the weekly roll-up of one instrument.     *)
(* Each part has its own specification over the shared variables.          *)
(***************************************************************************)
EXTENDS Integers, Sequences, FiniteSets, Bags, TLC

VARIABLES
    \* ---- Provider (datafeed/provider.py) ----
    count,          \* Provider.count
    time,           \* Provider.time: the stored minute, int(time()/60)
    max_requests,   \* Provider.max_requests
    lock,           \* Provider.lock: the worker holding it, or Free
    \* ---- wall clock, in minutes ----
    clock,
    \* ---- worker threads running sync_asset ----
    pc,             \* position of each worker
    curr_time,      \* make_request's local curr_time
    counter,        \* sync_asset's local retry counter
    exited,         \* os._exit(1) was called
    \* ---- history variables of the gate ----
    grants,         \* grants[m]: requests granted by calls that read minute m
    refused,        \* refused[w]: minute at which w's latest make_request call was last refused
    calls,          \* calls[w]: sync_asset calls started by worker w
    failures,       \* provider calls that have raised so far
    \* ---- scheduler (datalink.py run loop, AssetClass.on_interval) ----
    now,            \* datetime.utcnow(), in seconds since the process started
    last_update,    \* IntervalUpdater.last_update of each updater
    loop_pc,        \* position of the polling loop: "check", "run" or "sleep"
    idx,            \* index of the updater on_interval is at
    sleep_until,    \* end of the loop's time.sleep(REFRESH_INTERVAL)
    \* ---- history variables of the scheduler ----
    last_check,     \* the latest requires_update() check and what followed
    checked,        \* updaters on_interval has checked at least once
    last_finish,    \* the do_update that has just returned, and when
    \* ---- one instrument and its candles (models/asset.py, models/candle.py) ----
    asset_class,    \* "Currency" or "Stock"
    utc_date,       \* datetime.utcnow().date(), in days; day 0 is a Monday
    store,          \* Candle.objects of the instrument, a bag of candles
    earliest_timestamp, \* Asset.earliest_timestamp
    price,          \* Asset.price
    \* ---- history variable of the syncs ----
    result,         \* the latest sync call: what it was given and returned
    \* ---- one call of aggregate_candles ----
    members,        \* the candles the query yields, in the order of iteration
    aggregate,      \* the candle the call has returned, NoCandle before it
    \* ---- the instruments of the two asset classes and their seed lists ----
    currencies,     \* Currency.objects, a bag of (ticker, name) pairs
    stocks,         \* Stock.objects, a bag of (ticker, name) pairs
    supported_currencies, \* the rows of datafeed/defaults/supported_currencies.csv
    supported_stocks,     \* the rows of datafeed/defaults/supported_stocks.csv
    limit_assets,   \* CONFIG.LIMIT_ASSETS
    limit_assets_quantity, \* CONFIG.LIMIT_ASSETS_QUANTITY
    \* ---- history variables of the startup ----
    startups,       \* startups[c]: the on_startup calls of class c so far
    inserted,       \* inserted[c]: the instruments its latest call inserted
    \* ---- the worker pool of the do_update that is running ----
    jobs,           \* jobs[j]: how far the sync_asset call of item j has come
    pool,           \* position of do_update: "none", "map" or "joined"
    \* ---- the wall clock in half minutes, and the grants it has seen ----
    half,           \* 0 in the first 30 seconds of minute clock, 1 in the last
    recent,         \* grants made in the previous and in this half minute
    \* ---- history variables of the provider calls ----
    given,          \* requests the gate has let through so far
    issued,         \* provider calls issued so far
    \* ---- the head of one daily sync_asset call ----
    curr_time_utc,  \* curr_time = datetime.utcnow() of the call, in seconds
    sync_mode,      \* sync_type as the call has set it, "" before the call
    \* ---- the configuration of the live syncers ----
    max_retries,    \* CONFIG.MAX_RETRIES
    \* ---- one do_update of the Trends updater ----
    unused_quota,   \* do_update's local unused_quota
    source_left,    \* instruments of self.source the loop has not reached yet
    quota_at_start  \* what get_unused_quota() returned to this do_update

gateVars == <<count, time, max_requests, lock, clock, pc, curr_time, counter,
              exited, grants, refused, calls, failures>>

schedVars == <<now, last_update, loop_pc, idx, sleep_until, last_check, checked,
               last_finish>>

syncVars == <<asset_class, utc_date, store, earliest_timestamp, price, result>>

aggregateVars == <<members, aggregate>>

seedVars == <<currencies, stocks, supported_currencies, supported_stocks,
              limit_assets, limit_assets_quantity, startups, inserted>>

poolVars == <<jobs, pool>>

rateVars == <<half, recent>>

fetchVars == <<given, issued>>

modeVars == <<curr_time_utc, sync_mode>>

configVars == <<max_retries>>

trendsVars == <<unused_quota, source_left, quota_at_start>>

unitVars == <<aggregateVars, seedVars, poolVars, rateVars, fetchVars, modeVars,
              configVars, trendsVars>>

vars == <<gateVars, schedVars, syncVars, unitVars>>

-----------------------------------------------------------------------------
(* Bounds of the model. *)

MaxRetries == 6
MaxDriftDay == 4
MaxTrendsRuns == 2
MaxSource == 3
MaxModeDay == 100
NumJobs == 5
MaxPoolNow == 600
NumWorkers == 3
MaxN == 2
MaxMinute == 2
MaxCalls == 1
MaxFailures == 2
NumRetryWorkers == 2

\* The scheduler's clock advances in steps of ClockStep seconds up to MaxNow.
ClockStep == 300
MaxNow == 3900

\* The calendar runs over the days 0..MaxDay, and over 0..MaxSyncDay where the
\* provider answers arbitrarily; a response holds at most MaxBars daily bars,
\* none older than MaxAge days; at most MaxAggregated weekly and
\* monthly candles and MaxStoredBars bars of the provider are stored before a
\* further call.
MaxDay == 29
MaxSyncDay == 6
MaxBars == 3
MaxAge == 5
MaxAggregated == 6
MaxStoredBars == 4
MaxRate == 2

\* aggregate_candles is given at most MaxMembers candles of consecutive days,
\* whose highs and lows vary over MaxSpread + 1 prices.
MaxMembers == 2
MaxSpread == 1

\* A seed list has at most MaxRows rows, the cap on the equities is at most
\* MaxQuantity, and on_startup runs at most MaxStartups times for a class.
MaxRows == 3
MaxQuantity == 2
MaxStartups == 2

(* Program constants. *)

DAILY_MAX_RETRIES == 5
MAX_RETRIES == 5
INTERVAL_MINUTE == 60
INTERVAL_HOUR == 3600
LIVE_UPDATE_INTERVAL == 600
REFRESH_INTERVAL == 60
WORKER_THREADS == 4
INTERVAL_DAY == 86400
INTERVAL_WEEK == 604800
INTERVAL_MONTH == 2592000
DAILY_UPDATE_INTERVAL == 2
DAILY_COMPACT_THRESHOLD == 99

Workers == 1..NumWorkers
Minutes == 0..MaxMinute

\* Python's None; every modelled number is >= 0.
None == -1
\* threading.Lock in its unlocked state.
Free == 0

-----------------------------------------------------------------------------
(* Provider.__init__ and the state of the pool's workers before any call. *)

ProviderInit ==
    /\ count = 0
    /\ lock = Free
    /\ max_requests \in 1..MaxN
    /\ clock = 0
    /\ time = clock

WorkersInit ==
    /\ pc = [w \in Workers |-> "idle"]
    /\ curr_time = [w \in Workers |-> None]
    /\ counter = [w \in Workers |-> 0]
    /\ exited = FALSE
    /\ grants = [m \in Minutes |-> 0]
    /\ refused = [w \in Workers |-> None]
    /\ calls = [w \in Workers |-> 0]
    /\ failures = 0

\* Provider.get_unused_quota
get_unused_quota == max_requests - count

\* Provider.get_count
get_count == count

\* the wall clock is at a minute boundary and no grant has been made
RateIdle ==
    /\ half = 0
    /\ recent = <<0, 0>>

\* the retry ceiling of local_config.py
ConfigIdle == max_retries = MAX_RETRIES

\* no do_update of the Trends updater has started
TrendsIdle ==
    /\ unused_quota = None
    /\ source_left = 0
    /\ quota_at_start = None

\* no request has been let through and no provider call issued
FetchIdle ==
    /\ given = 0
    /\ issued = 0

-----------------------------------------------------------------------------
(* sync_asset's retry loop around the provider call, one worker each. *)

\* A pool worker is handed an instrument: counter = 0, enter the while loop.
sync_asset_start(w) ==
    /\ ~exited
    /\ pc[w] = "idle"
    /\ calls[w] < MaxCalls
    /\ calls' = [calls EXCEPT ![w] = @ + 1]
    /\ counter' = [counter EXCEPT ![w] = 0]
    /\ refused' = [refused EXCEPT ![w] = None]
    /\ pc' = [pc EXCEPT ![w] = "lock"]
    /\ UNCHANGED <<count, time, max_requests, lock, clock, curr_time, exited,
                   grants, failures>>

(* Provider.make_request, statement by statement. *)

\* self.lock.acquire()
lock_acquire(w) ==
    /\ ~exited
    /\ pc[w] = "lock"
    /\ lock = Free
    /\ lock' = w
    /\ pc' = [pc EXCEPT ![w] = "time"]
    /\ UNCHANGED <<count, time, max_requests, clock, curr_time, counter, exited,
                   grants, refused, calls, failures>>

\* curr_time = int(time()/60)
read_time(w) ==
    /\ ~exited
    /\ pc[w] = "time"
    /\ curr_time' = [curr_time EXCEPT ![w] = clock]
    /\ pc' = [pc EXCEPT ![w] = "test"]
    /\ UNCHANGED <<count, time, max_requests, lock, clock, counter, exited,
                   grants, refused, calls, failures>>

\* a faulty variant: the quota test written with > instead of >=
test_branch_gt(w) ==
    IF curr_time[w] = time
    THEN IF count > max_requests THEN "full" ELSE "incr"
    ELSE "reset"

\* if curr_time == self.time: if self.count >= self.max_requests: ... else: ...
test_branch(w) ==
    IF curr_time[w] = time
    THEN IF count >= max_requests THEN "full" ELSE "incr"
    ELSE "reset"

test(w) ==
    /\ ~exited
    /\ pc[w] = "test"
    /\ pc' = [pc EXCEPT ![w] = test_branch(w)]
    /\ UNCHANGED <<count, time, max_requests, lock, clock, curr_time, counter,
                   exited, grants, refused, calls, failures>>

\* a faulty variant: the refused path goes to sleep without releasing the lock
release_full_keeps_lock(w) ==
    /\ ~exited
    /\ pc[w] = "full"
    /\ refused' = [refused EXCEPT ![w] = curr_time[w]]
    /\ pc' = [pc EXCEPT ![w] = "sleep"]
    /\ UNCHANGED <<count, time, max_requests, lock, clock, curr_time, counter,
                   exited, grants, calls, failures>>

\* self.lock.release() on the refused path; then print and sleep(10)
release_full(w) ==
    /\ ~exited
    /\ pc[w] = "full"
    /\ lock' = Free
    /\ refused' = [refused EXCEPT ![w] = curr_time[w]]
    /\ pc' = [pc EXCEPT ![w] = "sleep"]
    /\ UNCHANGED <<count, time, max_requests, clock, curr_time, counter, exited,
                   grants, calls, failures>>

\* self.count += 1
incr(w) ==
    /\ ~exited
    /\ pc[w] = "incr"
    /\ count' = count + 1
    /\ grants' = [grants EXCEPT ![curr_time[w]] = @ + 1]
    /\ pc' = [pc EXCEPT ![w] = "unlock"]
    /\ UNCHANGED <<time, max_requests, lock, clock, curr_time, counter, exited,
                   refused, calls, failures>>

\* a faulty variant: the new minute's first request is not counted
reset_to_zero(w) ==
    /\ ~exited
    /\ pc[w] = "reset"
    /\ time' = curr_time[w]
    /\ count' = 0
    /\ grants' = [grants EXCEPT ![curr_time[w]] = @ + 1]
    /\ pc' = [pc EXCEPT ![w] = "unlock"]
    /\ UNCHANGED <<max_requests, lock, clock, curr_time, counter, exited,
                   refused, calls, failures>>

\* self.time = curr_time; self.count = 1
reset(w) ==
    /\ ~exited
    /\ pc[w] = "reset"
    /\ time' = curr_time[w]
    /\ count' = 1
    /\ grants' = [grants EXCEPT ![curr_time[w]] = @ + 1]
    /\ pc' = [pc EXCEPT ![w] = "unlock"]
    /\ UNCHANGED <<max_requests, lock, clock, curr_time, counter, exited,
                   refused, calls, failures>>

\* a faulty variant: the granted path returns with the lock still held
release_granted_keeps_lock(w) ==
    /\ ~exited
    /\ pc[w] = "unlock"
    /\ curr_time' = [curr_time EXCEPT ![w] = None]
    /\ pc' = [pc EXCEPT ![w] = "fetch"]
    /\ UNCHANGED <<count, time, max_requests, lock, clock, counter, exited,
                   grants, refused, calls, failures>>

\* self.lock.release(); can_continue = True; make_request returns and the
\* caller issues its provider call (self.api.get_...)
release_granted(w) ==
    /\ ~exited
    /\ pc[w] = "unlock"
    /\ lock' = Free
    /\ curr_time' = [curr_time EXCEPT ![w] = None]
    /\ pc' = [pc EXCEPT ![w] = "fetch"]
    /\ UNCHANGED <<count, time, max_requests, clock, counter, exited, grants,
                   refused, calls, failures>>

\* sleep(10) is over: back to the head of the while loop
wake(w) ==
    /\ ~exited
    /\ pc[w] = "sleep"
    /\ curr_time' = [curr_time EXCEPT ![w] = None]
    /\ pc' = [pc EXCEPT ![w] = "lock"]
    /\ UNCHANGED <<count, time, max_requests, lock, clock, counter, exited,
                   grants, refused, calls, failures>>

\* the provider call returned: counter = DAILY_MAX_RETRIES, the loop ends
fetch_ok(w) ==
    /\ ~exited
    /\ pc[w] = "fetch"
    /\ counter' = [counter EXCEPT ![w] = DAILY_MAX_RETRIES]
    /\ pc' = [pc EXCEPT ![w] = "idle"]
    /\ UNCHANGED <<count, time, max_requests, lock, clock, curr_time, exited,
                   grants, refused, calls, failures>>

\* the provider call raised: the except branch is entered
fetch_fail(w) ==
    /\ ~exited
    /\ pc[w] = "fetch"
    /\ failures' = failures + 1
    /\ pc' = [pc EXCEPT ![w] = "wait"]
    /\ UNCHANGED <<count, time, max_requests, lock, clock, curr_time, counter,
                   exited, grants, refused, calls>>

\* a faulty variant: the retry is the provider call alone
error_wait_refetch(w) ==
    /\ ~exited
    /\ pc[w] = "wait"
    /\ counter' = [counter EXCEPT ![w] = @ + 1]
    /\ refused' = [refused EXCEPT ![w] = None]
    /\ IF counter[w] + 1 = DAILY_MAX_RETRIES
       THEN /\ exited' = TRUE
            /\ pc' = [pc EXCEPT ![w] = "exit"]
       ELSE /\ exited' = FALSE
            /\ pc' = [pc EXCEPT ![w] = "fetch"]
    /\ UNCHANGED <<count, time, max_requests, lock, clock, curr_time, grants,
                   calls, failures>>

\* a faulty variant: the ceiling does not end the process
error_wait_goes_on(w) ==
    /\ ~exited
    /\ pc[w] = "wait"
    /\ counter' = [counter EXCEPT ![w] = @ + 1]
    /\ refused' = [refused EXCEPT ![w] = None]
    /\ pc' = [pc EXCEPT ![w] = "lock"]
    /\ UNCHANGED <<count, time, max_requests, lock, clock, curr_time, exited,
                   grants, calls, failures>>

\* sleep(CONFIG.ERROR_WAIT_TIME); counter += 1; os._exit(1) at the ceiling
error_wait(w) ==
    /\ ~exited
    /\ pc[w] = "wait"
    /\ counter' = [counter EXCEPT ![w] = @ + 1]
    /\ refused' = [refused EXCEPT ![w] = None]
    /\ IF counter[w] + 1 = DAILY_MAX_RETRIES
       THEN /\ exited' = TRUE
            /\ pc' = [pc EXCEPT ![w] = "exit"]
       ELSE /\ exited' = FALSE
            /\ pc' = [pc EXCEPT ![w] = "lock"]
    /\ UNCHANGED <<count, time, max_requests, lock, clock, curr_time, grants,
                   calls, failures>>

\* The retry loop of the live syncers (CurrencyUpdaterLive.sync_asset,
\* StockUpdaterLive.sync_asset): while counter < CONFIG.MAX_RETRIES.
\* The provider call returned: counter = CONFIG.MAX_RETRIES, the loop ends
\* and the call goes on with data.
live_fetch_ok(w) ==
    /\ ~exited
    /\ pc[w] = "fetch"
    /\ counter' = [counter EXCEPT ![w] = max_retries]
    /\ pc' = [pc EXCEPT ![w] = "idle"]
    /\ UNCHANGED <<count, time, max_requests, lock, clock, curr_time, exited,
                   grants, refused, calls, failures>>

\* sleep(CONFIG.ERROR_WAIT_TIME); counter += 1; os._exit(1) when counter is
\* DAILY_MAX_RETRIES; when the loop ends without it, "if data is None" reads
\* a local that was never assigned and raises UnboundLocalError
live_error_wait(w) ==
    /\ ~exited
    /\ pc[w] = "wait"
    /\ counter' = [counter EXCEPT ![w] = @ + 1]
    /\ refused' = [refused EXCEPT ![w] = None]
    /\ IF counter[w] + 1 = DAILY_MAX_RETRIES
       THEN /\ exited' = TRUE
            /\ pc' = [pc EXCEPT ![w] = "exit"]
       ELSE /\ exited' = FALSE
            /\ pc' = [pc EXCEPT ![w] = IF counter[w] + 1 < max_retries
                                      THEN "lock" ELSE "raised"]
    /\ UNCHANGED <<count, time, max_requests, lock, clock, curr_time, grants,
                   calls, failures>>

\* the wall clock passes a minute boundary
Tick ==
    /\ clock < MaxMinute
    /\ clock' = clock + 1
    /\ UNCHANGED <<count, time, max_requests, lock, pc, curr_time, counter,
                   exited, grants, refused, calls, failures>>

-----------------------------------------------------------------------------
(* The polling loop of DataLink.run and AssetClass.on_interval, for the     *)
(* updaters of one asset class in the order on_startup appends them.        *)

updaters == <<"Live", "Daily", "Aggregation", "Trends">>

Updaters == {updaters[i] : i \in 1..Len(updaters)}

\* self.interval as set by each updater's __init__
interval(u) ==
    CASE u = "Live" -> LIVE_UPDATE_INTERVAL
      [] u = "Daily" -> INTERVAL_HOUR
      [] u = "Aggregation" -> INTERVAL_HOUR
      [] u = "Trends" -> INTERVAL_MINUTE

\* The history variables hold the check (the completion) made by the latest
\* step of the loop, and nothing once the loop or the clock has moved on.
NoCheck == [updater |-> "", at |-> None, last_update |-> None, first |-> FALSE,
            invoked |-> FALSE]

NoFinish == [updater |-> "", at |-> None]

\* after on_startup: every updater is new, the loop enters its first pass
SchedInit ==
    /\ now = 0
    /\ last_update = [u \in Updaters |-> None]
    /\ loop_pc = "check"
    /\ idx = 1
    /\ sleep_until = 0
    /\ last_check = NoCheck
    /\ checked = {}
    /\ last_finish = NoFinish

\* a faulty variant: due only when more than the interval has elapsed
requires_update_gt(u) ==
    IF last_update[u] = None
    THEN TRUE
    ELSE (now - last_update[u]) > interval(u)

\* IntervalUpdater.requires_update
requires_update(u) ==
    IF last_update[u] = None
    THEN TRUE
    ELSE (now - last_update[u]) >= interval(u)

\* the for loop of on_interval moves on; after the last updater the loop of
\* run() goes to time.sleep(REFRESH_INTERVAL)
Advance ==
    IF idx < Len(updaters)
    THEN /\ idx' = idx + 1
         /\ loop_pc' = "check"
         /\ UNCHANGED sleep_until
    ELSE /\ idx' = 1
         /\ loop_pc' = "sleep"
         /\ sleep_until' = now + REFRESH_INTERVAL

\* on_interval: if updater.requires_update(): updater.do_update()
on_interval_check ==
    /\ loop_pc = "check"
    /\ LET u == updaters[idx]
           due == requires_update(u)
       IN /\ last_check' = [updater |-> u, at |-> now,
                             last_update |-> last_update[u],
                             first |-> u \notin checked, invoked |-> due]
          /\ checked' = checked \cup {u}
          /\ IF due
             THEN /\ loop_pc' = "run"
                  /\ UNCHANGED <<idx, sleep_until>>
             ELSE Advance
    /\ last_finish' = NoFinish
    /\ UNCHANGED <<now, last_update>>

\* do_update of the Live, Daily and Aggregation updaters returns:
\* pool.join(); self.last_update = datetime.utcnow()
do_update_finish ==
    /\ loop_pc = "run"
    /\ updaters[idx] # "Trends"
    /\ last_update' = [last_update EXCEPT ![updaters[idx]] = now]
    /\ last_finish' = [updater |-> updaters[idx], at |-> now]
    /\ last_check' = NoCheck
    /\ Advance
    /\ UNCHANGED <<now, checked>>

\* AssetUpdaterTrends.do_update returns (at line 811 or after line 820):
\* it has no assignment to self.last_update
trends_do_update_finish ==
    /\ loop_pc = "run"
    /\ updaters[idx] = "Trends"
    /\ last_finish' = [updater |-> updaters[idx], at |-> now]
    /\ last_check' = NoCheck
    /\ Advance
    /\ UNCHANGED <<now, last_update, checked>>

\* time.sleep(REFRESH_INTERVAL) is over: the next pass begins
pass_start ==
    /\ loop_pc = "sleep"
    /\ now >= sleep_until
    /\ loop_pc' = "check"
    /\ last_check' = NoCheck
    /\ last_finish' = NoFinish
    /\ UNCHANGED <<now, last_update, idx, sleep_until, checked>>

\* time passes
Elapse ==
    /\ now + ClockStep <= MaxNow
    /\ now' = now + ClockStep
    /\ last_check' = NoCheck
    /\ last_finish' = NoFinish
    /\ UNCHANGED <<last_update, loop_pc, idx, sleep_until, checked>>

-----------------------------------------------------------------------------
(* The worker pool of a do_update: pool = mp.Pool(...); pool.map(sync_asset, *)
(* items); pool.close(); pool.join().  An item is an instrument, or a chunk  *)
(* of tickers for the live sync of the equities.                             *)

Jobs == 1..NumJobs

Incomplete == {"queued", "running"}

\* no do_update has run yet
PoolIdle ==
    /\ jobs = [j \in Jobs |-> "none"]
    /\ pool = "none"

\* a faulty variant: the results are not waited for (map_async)
map_async(js) == TRUE

\* pool.map has the result of every item
pool_map(js) == \A j \in Jobs : js[j] \notin Incomplete

\* mp.Pool(CONFIG.WORKER_THREADS), and twice as many for the live sync
pool_size(u) == IF u = "Live" THEN WORKER_THREADS * 2 ELSE WORKER_THREADS

\* do_update of the Live, Daily and Aggregation updaters hands its items to
\* the pool
do_update_start ==
    /\ loop_pc = "run"
    /\ updaters[idx] # "Trends"
    /\ pool = "none"
    /\ pool' = "map"
    /\ jobs' = [j \in Jobs |-> "queued"]
    /\ UNCHANGED schedVars

\* a free thread of the pool takes item j and calls sync_asset
job_start(j) ==
    /\ loop_pc = "run"
    /\ pool = "map"
    /\ jobs[j] = "queued"
    /\ Cardinality({k \in Jobs : jobs[k] = "running"}) < pool_size(updaters[idx])
    /\ jobs' = [jobs EXCEPT ![j] = "running"]
    /\ UNCHANGED <<pool, schedVars>>

\* sync_asset returns: [True, n] ("ok") after it has saved what it synced,
\* [False, 0] ("failed") from one of its early returns
sync_asset_returns(j, value) ==
    /\ loop_pc = "run"
    /\ pool = "map"
    /\ jobs[j] = "running"
    /\ jobs' = [jobs EXCEPT ![j] = value]
    /\ UNCHANGED <<pool, schedVars>>

\* sync_asset raises outside its try blocks; the pool keeps the exception for
\* pool.map
sync_asset_raises(j) ==
    /\ loop_pc = "run"
    /\ pool = "map"
    /\ jobs[j] = "running"
    /\ jobs' = [jobs EXCEPT ![j] = "raised"]
    /\ UNCHANGED <<pool, schedVars>>

\* the last retry of sync_asset has failed: os._exit(1).  The pool is one of
\* threads (multiprocessing.dummy), so the process ends here
sync_asset_exits(j) ==
    /\ loop_pc = "run"
    /\ pool = "map"
    /\ updaters[idx] \in {"Daily", "Live"}
    /\ jobs[j] = "running"
    /\ jobs' = [jobs EXCEPT ![j] = "exhausted"]
    /\ loop_pc' = "exit"
    /\ UNCHANGED <<pool, now, last_update, idx, sleep_until, last_check, checked,
                   last_finish>>

\* pool.map returns the results; pool.close(); pool.join()
pool_map_returns ==
    /\ loop_pc = "run"
    /\ pool = "map"
    /\ pool_map(jobs)
    /\ \A j \in Jobs : jobs[j] # "raised"
    /\ pool' = "joined"
    /\ UNCHANGED <<jobs, schedVars>>

\* a faulty variant: the exception is raised as soon as an item has raised
map_fails_fast(js) == \E j \in Jobs : js[j] = "raised"

\* pool.map raises the exception of an item, which it does when every item is
\* done
map_fails(js) == pool_map(js) /\ \E j \in Jobs : js[j] = "raised"

\* pool.map raises: nothing catches the exception in do_update, on_interval
\* or run, and the process ends
pool_map_raises ==
    /\ loop_pc = "run"
    /\ pool = "map"
    /\ map_fails(jobs)
    /\ loop_pc' = "raised"
    /\ UNCHANGED <<jobs, pool, now, last_update, idx, sleep_until, last_check,
                   checked, last_finish>>

\* self.last_update = datetime.utcnow(), and do_update returns
do_update_return ==
    /\ pool = "joined"
    /\ do_update_finish
    /\ pool' = "none"
    /\ UNCHANGED jobs

-----------------------------------------------------------------------------
(* One instrument and its candles.  A time is a number of seconds since     *)
(* midnight UTC of day 0, which is a Monday.                                *)

AssetClasses == {"Currency", "Stock"}

DAILY_SYNC_COMPACT == "compact"
DAILY_SYNC_FULL == "full"

\* datetime.date() and datetime.weekday() (Monday is 0)
Date(t) == t \div INTERVAL_DAY
Weekday(t) == Date(t) % 7

\* A stock bar is stamped midnight US/Eastern, converted to UTC; a currency
\* bar is stamped midnight UTC.
UtcOffset(c) == IF c = "Stock" THEN 5 * INTERVAL_HOUR ELSE 0

Candle(period, open_time, open, high, low, close, volume) ==
    [interval |-> period, open_time |-> open_time, open |-> open,
     high |-> high, low |-> low, close |-> close, volume |-> volume]

\* the result of a query that finds no candle
NoCandle == Candle(None, None, None, None, None, None, None)

\* What the data provider quotes for day d.
ProviderClose(d) == 100 + (5 * (d - 1)) \div 2
ProviderOpen(d) == ProviderClose(d) - 1
ProviderHigh(d) == ProviderClose(d) + 2
ProviderLow(d) == ProviderClose(d) - 2
ProviderVolume(d) == 10 * (d + 1)

\* Candle.objects(asset=asset, interval=interval)
get_asset(period) == {c \in BagToSet(store) : c.interval = period}

\* default ordering '-open_time': the first candle of the query
get_asset_last_candle(period) ==
    IF get_asset(period) = {} THEN NoCandle
    ELSE CHOOSE c \in get_asset(period) :
            \A o \in get_asset(period) : c.open_time >= o.open_time

\* order_by('open_time').first()
get_asset_first_candle(period) ==
    IF get_asset(period) = {} THEN NoCandle
    ELSE CHOOSE c \in get_asset(period) :
            \A o \in get_asset(period) : c.open_time <= o.open_time

\* open_time__gte=start, open_time__lt=finish; start and finish are dates
get_asset_within(period, start, finish) ==
    {c \in get_asset(period) :
        /\ c.open_time # None
        /\ c.open_time >= start * INTERVAL_DAY
        /\ c.open_time < finish * INTERVAL_DAY}

get_daily_candle(date) ==
    IF get_asset_within(INTERVAL_DAY, date, date + 1) = {} THEN NoCandle
    ELSE CHOOSE c \in get_asset_within(INTERVAL_DAY, date, date + 1) :
            \A o \in get_asset_within(INTERVAL_DAY, date, date + 1) :
                c.open_time >= o.open_time

\* the candles of a query as it iterates: most recent first
RECURSIVE InOrder(_)
InOrder(cs) ==
    IF cs = {} THEN <<>>
    ELSE LET c == CHOOSE x \in cs : \A o \in cs : x.open_time >= o.open_time
         IN <<c>> \o InOrder(cs \ {c})

\* A provider response: daily entries, most recent first; the oldest of them
\* may be malformed (no payload, an unparsable date, an unparsable price).
Faults == {"payload", "date", "field"}

Descending(s) == \A i \in 1..Len(s) - 1 : s[i] > s[i + 1]

Dates(today) ==
    {s \in UNION {[1..n -> {d \in 0..today : d >= today - MaxAge}] : n \in 0..MaxBars} :
        Descending(s)}

Entries(s, k, f) ==
    [i \in 1..Len(s) |-> [date |-> s[i], fault |-> IF i = k THEN f ELSE "none"]]

Responses(today) ==
    {Entries(s, 0, "none") : s \in Dates(today)}
        \cup {Entries(s, Len(s), f) : s \in Dates(today) \ {<<>>}, f \in Faults}

\* midday and midnight
TimesOfDay == {0, 12 * INTERVAL_HOUR}

Bar(c, d) ==
    Candle(INTERVAL_DAY, d * INTERVAL_DAY + UtcOffset(c), ProviderOpen(d),
           ProviderHigh(d), ProviderLow(d), ProviderClose(d),
           IF c = "Stock" THEN ProviderVolume(d) ELSE None)

\* a faulty variant: the filler carries no close
Filler_without_close(stamp, close) ==
    Candle(INTERVAL_DAY, stamp, None, None, None, None, None)

\* Candle(asset=asset, close=..., open_time=filler_candle_stamp,
\* interval=INTERVAL_DAY)
Filler(stamp, close) ==
    Candle(INTERVAL_DAY, stamp, None, None, None, close, None)

\* a faulty variant: the loop ends a day before target_day
RECURSIVE fillers_short(_, _, _)
fillers_short(stamp, target_day, close) ==
    IF Date(stamp) >= target_day - 1 THEN <<>>
    ELSE <<Filler(stamp, close)>>
            \o fillers_short(stamp + INTERVAL_DAY, target_day, close)

\* the filler loop: one candle a day from stamp until the date is target_day
RECURSIVE fillers(_, _, _)
fillers(stamp, target_day, close) ==
    IF Date(stamp) = target_day THEN <<>>
    ELSE <<Filler(stamp, close)>> \o fillers(stamp + INTERVAL_DAY, target_day, close)

\* the close a filler carries: that of the later bar parsed before ...
filler_close_of_later_bar(candle, candles) ==
    IF candles = <<>> THEN candle.close ELSE candles[Len(candles)].close

\* ... and that of the bar the fillers follow
filler_close(candle, candles) == candle.close

\* a faulty variant: a candle of exactly two days ago is synced
sync_type_from_two_days(latest_candle, utcnow) ==
    IF latest_candle = NoCandle THEN DAILY_SYNC_FULL
    ELSE IF utcnow - latest_candle.open_time >= DAILY_UPDATE_INTERVAL * INTERVAL_DAY
         THEN IF utcnow - latest_candle.open_time >= DAILY_COMPACT_THRESHOLD * INTERVAL_DAY
              THEN DAILY_SYNC_FULL
              ELSE DAILY_SYNC_COMPACT
         ELSE "nosync"

\* sync_type as the head of sync_asset sets it; "nosync" stands for None
sync_type(latest_candle, utcnow) ==
    IF latest_candle = NoCandle THEN DAILY_SYNC_FULL
    ELSE IF utcnow - latest_candle.open_time > DAILY_UPDATE_INTERVAL * INTERVAL_DAY
         THEN IF utcnow - latest_candle.open_time >= DAILY_COMPACT_THRESHOLD * INTERVAL_DAY
              THEN DAILY_SYNC_FULL
              ELSE DAILY_SYNC_COMPACT
         ELSE "nosync"

\* no sync_asset call has chosen its sync_type
ModeIdle ==
    /\ curr_time_utc = 0
    /\ sync_mode = ""

\* the head of sync_asset: latest_candle, curr_time, diff and sync_type
choose_sync_type ==
    /\ sync_mode = ""
    /\ sync_mode' = sync_type(get_asset_last_candle(INTERVAL_DAY), curr_time_utc)
    /\ UNCHANGED curr_time_utc

\* a faulty variant: a malformed entry ends the loop and keeps what was parsed
keep_parsed(candles) == [ok |-> TRUE, candles |-> candles]

\* return [False, 0] inside the loop: nothing of the response is kept
terminate_syncing(candles) == [ok |-> FALSE, candles |-> <<>>]

\* a faulty variant: the loop does not end at an entry that is not newer than
\* the latest stored candle
RECURSIVE parse_response_no_break(_, _, _, _, _)
parse_response_no_break(data, i, latest_candle, today, candles) ==
    IF i > Len(data) THEN [ok |-> TRUE, candles |-> candles]
    ELSE IF data[i].fault \in {"payload", "date"}
         THEN terminate_syncing(candles)
    ELSE IF data[i].date = today
         THEN parse_response_no_break(data, i + 1, latest_candle, today, candles)
    ELSE IF data[i].fault = "field"
         THEN terminate_syncing(candles)
    ELSE LET candle == Bar(asset_class, data[i].date)
             target_day == IF candles # <<>>
                           THEN Date(candles[Len(candles)].open_time)
                           ELSE today
         IN parse_response_no_break(data, i + 1, latest_candle, today,
                candles \o fillers(candle.open_time + INTERVAL_DAY, target_day,
                                   filler_close(candle, candles))
                        \o <<candle>>)

\* the loop over the days of the response, from entry i on
RECURSIVE parse_response(_, _, _, _, _)
parse_response(data, i, latest_candle, today, candles) ==
    IF i > Len(data) THEN [ok |-> TRUE, candles |-> candles]
    ELSE IF data[i].fault \in {"payload", "date"}
         THEN terminate_syncing(candles)
    ELSE IF data[i].date = today
         THEN parse_response(data, i + 1, latest_candle, today, candles)
    ELSE IF latest_candle # NoCandle /\ data[i].date <= Date(latest_candle.open_time)
         THEN [ok |-> TRUE, candles |-> candles]
    ELSE IF data[i].fault = "field"
         THEN terminate_syncing(candles)
    ELSE LET candle == Bar(asset_class, data[i].date)
             target_day == IF candles # <<>>
                           THEN Date(candles[Len(candles)].open_time)
                           ELSE today
         IN parse_response(data, i + 1, latest_candle, today,
                candles \o fillers(candle.open_time + INTERVAL_DAY, target_day,
                                   filler_close(candle, candles))
                        \o <<candle>>)

\* a faulty variant: the collection is overwritten with the candles
overwrite(candles, objects) == SetToBag({candles[i] : i \in 1..Len(candles)})

\* Candle.objects.insert(candles)
RECURSIVE insert(_, _)
insert(candles, objects) ==
    IF candles = <<>> THEN objects
    ELSE insert(Tail(candles), objects (+) SetToBag({Head(candles)}))

\* The history variable holds the call made by the latest step: the function,
\* the response it was given, whether the instrument had no daily candle, what
\* the call returned ("ok" for True, "failed" for False, "raised" for an
\* exception) and whether it left the stored data as it was.
NoResult ==
    [op |-> "", type |-> "", data |-> <<>>, first |-> FALSE, status |-> "", n |-> 0,
     same |-> TRUE, monthly |-> <<"", 0>>]

Result(op, type, data, first, status, n, same) ==
    [op |-> op, type |-> type, data |-> data, first |-> first, status |-> status,
     n |-> n, same |-> same, monthly |-> <<"", 0>>]

SyncInit ==
    /\ asset_class = ""
    /\ utc_date = 0
    /\ store = EmptyBag
    /\ earliest_timestamp = None
    /\ price = None
    /\ result = NoResult

\* CurrencyClass.on_startup / StockClass.on_startup create the instrument
on_startup(c) ==
    /\ asset_class = ""
    /\ asset_class' = c
    /\ UNCHANGED <<utc_date, store, earliest_timestamp, price, result>>

\* a faulty variant: the open_time of the most recent daily candle
update_newest_timestamp(cs) ==
    LET times == {c.open_time : c \in get_asset(INTERVAL_DAY)}
                    \cup {cs[i].open_time : i \in 1..Len(cs)}
    IN CHOOSE t \in times : \A o \in times : t >= o

\* the earliest daily open_time once cs are stored too
update_earliest_timestamp(cs) ==
    LET times == {c.open_time : c \in get_asset(INTERVAL_DAY)}
                    \cup {cs[i].open_time : i \in 1..Len(cs)}
    IN CHOOSE t \in times : \A o \in times : t <= o

\* what sync_asset returns and the candles it inserts
sync_asset_outcome(data, no_data, time_of_day) ==
    LET latest_candle == get_asset_last_candle(INTERVAL_DAY)
        utcnow == utc_date * INTERVAL_DAY + time_of_day
        parsed == parse_response(data, 1, latest_candle, utc_date, <<>>)
        type == sync_type(latest_candle, utcnow)
    IN IF type = "nosync"
       THEN [type |-> type, status |-> "ok", candles |-> <<>>, parsed |-> FALSE]
       ELSE IF no_data \/ ~parsed.ok
       THEN [type |-> type, status |-> "failed", candles |-> <<>>, parsed |-> FALSE]
       ELSE IF parsed.candles # <<>>
       THEN [type |-> type, status |-> "ok", candles |-> parsed.candles, parsed |-> TRUE]
       ELSE IF latest_candle = NoCandle
       THEN [type |-> type, status |-> "raised", candles |-> <<>>, parsed |-> FALSE]
       ELSE [type |-> type, status |-> "ok", parsed |-> FALSE,
             candles |-> fillers(latest_candle.open_time + INTERVAL_DAY, utc_date,
                                 latest_candle.close)]

\* CurrencyUpdaterDaily.sync_asset / StockUpdaterDaily.sync_asset, once the
\* provider has answered with data at time_of_day of the current date
sync_asset_daily(data, no_data, time_of_day) ==
    LET outcome == sync_asset_outcome(data, no_data, time_of_day)
        earliest == IF outcome.parsed
                    THEN update_earliest_timestamp(outcome.candles)
                    ELSE earliest_timestamp
    IN /\ asset_class # ""
       /\ result = NoResult
       /\ store' = insert(outcome.candles, store)
       /\ earliest_timestamp' = earliest
       /\ result' = Result("daily", outcome.type, data, get_asset(INTERVAL_DAY) = {},
                           outcome.status, Len(outcome.candles),
                           outcome.candles = <<>> /\ earliest = earliest_timestamp)
       /\ UNCHANGED <<asset_class, utc_date, price>>

\* The same call when the provider's entries come in any order and midnight
\* UTC may pass while the call runs.  The call reads datetime.utcnow().date()
\* once for every entry it tests against today, once for the target day of
\* the first bar it accepts, and once more when it has accepted none; the
\* r-th read of a call begun on day today gives the next day when midnight
\* has passed after fewer reads.
date_read(today, midnight, r) ==
    IF midnight # None /\ r > midnight THEN today + 1 ELSE today

\* the loop over the days of the response, from entry i on; a filler loop
\* whose stamp starts after its target day never meets it, and ends when
\* filler_candle_stamp + timedelta(days=1) overflows
RECURSIVE parse_entries(_, _, _, _, _, _, _)
parse_entries(data, i, latest_candle, today, midnight, reads, candles) ==
    IF i > Len(data) THEN [status |-> "ok", candles |-> candles, reads |-> reads]
    ELSE IF data[i].fault \in {"payload", "date"}
         THEN [status |-> "failed", candles |-> <<>>, reads |-> reads]
    ELSE IF data[i].date = date_read(today, midnight, reads + 1)
         THEN parse_entries(data, i + 1, latest_candle, today, midnight, reads + 1,
                            candles)
    ELSE IF latest_candle # NoCandle /\ data[i].date <= Date(latest_candle.open_time)
         THEN [status |-> "ok", candles |-> candles, reads |-> reads + 1]
    ELSE IF data[i].fault = "field"
         THEN [status |-> "failed", candles |-> <<>>, reads |-> reads + 1]
    ELSE LET candle == Bar(asset_class, data[i].date)
             target_day == IF candles # <<>>
                           THEN Date(candles[Len(candles)].open_time)
                           ELSE date_read(today, midnight, reads + 2)
             reads_now == IF candles # <<>> THEN reads + 1 ELSE reads + 2
         IN IF Date(candle.open_time + INTERVAL_DAY) > target_day
            THEN [status |-> "overflow", candles |-> <<>>, reads |-> reads_now]
            ELSE parse_entries(data, i + 1, latest_candle, today, midnight, reads_now,
                     candles \o fillers(candle.open_time + INTERVAL_DAY, target_day,
                                        filler_close(candle, candles))
                             \o <<candle>>)

\* what sync_asset returns, the candles it inserts and the clock reads made
sync_asset_outcome_at(data, time_of_day, midnight) ==
    LET latest_candle == get_asset_last_candle(INTERVAL_DAY)
        utcnow == utc_date * INTERVAL_DAY + time_of_day
        parsed == parse_entries(data, 1, latest_candle, utc_date, midnight, 0, <<>>)
        type == sync_type(latest_candle, utcnow)
        target_day == date_read(utc_date, midnight, parsed.reads + 1)
    IN IF type = "nosync"
       THEN [type |-> type, status |-> "ok", candles |-> <<>>, parsed |-> FALSE,
             reads |-> 0]
       ELSE IF parsed.status # "ok"
       THEN [type |-> type, status |-> parsed.status, candles |-> <<>>,
             parsed |-> FALSE, reads |-> parsed.reads]
       ELSE IF parsed.candles # <<>>
       THEN [type |-> type, status |-> "ok", candles |-> parsed.candles,
             parsed |-> TRUE, reads |-> parsed.reads]
       ELSE IF latest_candle = NoCandle
       THEN [type |-> type, status |-> "raised", candles |-> <<>>, parsed |-> FALSE,
             reads |-> parsed.reads + 1]
       ELSE IF Date(latest_candle.open_time + INTERVAL_DAY) > target_day
       THEN [type |-> type, status |-> "overflow", candles |-> <<>>,
             parsed |-> FALSE, reads |-> parsed.reads + 1]
       ELSE [type |-> type, status |-> "ok", parsed |-> FALSE,
             reads |-> parsed.reads + 1,
             candles |-> fillers(latest_candle.open_time + INTERVAL_DAY, target_day,
                                 latest_candle.close)]

\* CurrencyUpdaterDaily.sync_asset / StockUpdaterDaily.sync_asset, once the
\* provider has answered with data at time_of_day of the current date; the
\* date has changed when the call returns if one of its reads saw the new day
sync_asset_daily_at(data, time_of_day, midnight) ==
    LET outcome == sync_asset_outcome_at(data, time_of_day, midnight)
        earliest == IF outcome.parsed
                    THEN update_earliest_timestamp(outcome.candles)
                    ELSE earliest_timestamp
        changed == midnight # None /\ outcome.reads > midnight
    IN /\ asset_class # ""
       /\ result = NoResult
       /\ changed => utc_date < MaxDriftDay
       /\ store' = insert(outcome.candles, store)
       /\ earliest_timestamp' = earliest
       /\ result' = Result("daily", outcome.type, data, get_asset(INTERVAL_DAY) = {},
                           outcome.status, Len(outcome.candles),
                           outcome.candles = <<>> /\ earliest = earliest_timestamp)
       /\ utc_date' = IF changed THEN utc_date + 1 ELSE utc_date
       /\ UNCHANGED <<asset_class, price>>

\* do_update has collected the value with pool.map and drops it
sync_asset_return ==
    /\ result # NoResult
    /\ result' = NoResult
    /\ UNCHANGED <<asset_class, utc_date, store, earliest_timestamp, price>>

\* midnight UTC passes
NextDay ==
    /\ utc_date < MaxDay
    /\ result = NoResult
    /\ utc_date' = utc_date + 1
    /\ UNCHANGED result
    /\ UNCHANGED <<asset_class, store, earliest_timestamp, price>>

\* CurrencyUpdaterLive.sync_asset / StockUpdaterLive.sync_asset, once the
\* provider has answered: the rate of the answer becomes the price of the
\* instrument, unless the answer cannot be parsed
sync_asset_live(rate, parsed) ==
    /\ asset_class # ""
    /\ result = NoResult
    /\ price' = IF parsed THEN rate ELSE price
    /\ UNCHANGED <<asset_class, utc_date, store, earliest_timestamp, result>>

\* AssetUpdaterAggregation.aggregate_candles: the loop over the candles, and
\* the candle built from what it has accumulated
NoAggregate ==
    [low_price |-> None, high_price |-> None, volume |-> 0, open_price |-> 0,
     open_stamp |-> None, close_price |-> 0, close_stamp |-> None]

\* a faulty variant: the close is that of the candle iterated last
aggregate_step_last_iterated(acc, candle) ==
    IF candle.open = None THEN acc
    ELSE [low_price |-> IF acc.low_price = None \/ candle.low < acc.low_price
                        THEN candle.low ELSE acc.low_price,
          high_price |-> IF acc.high_price = None \/ candle.high > acc.high_price
                         THEN candle.high ELSE acc.high_price,
          volume |-> IF candle.volume # None
                     THEN acc.volume + candle.volume ELSE acc.volume,
          open_price |-> IF acc.open_stamp = None \/ candle.open_time < acc.open_stamp
                         THEN candle.open ELSE acc.open_price,
          open_stamp |-> IF acc.open_stamp = None \/ candle.open_time < acc.open_stamp
                         THEN candle.open_time ELSE acc.open_stamp,
          close_price |-> candle.close,
          close_stamp |-> candle.open_time]

aggregate_step(acc, candle) ==
    IF candle.open = None THEN acc
    ELSE [low_price |-> IF acc.low_price = None \/ candle.low < acc.low_price
                        THEN candle.low ELSE acc.low_price,
          high_price |-> IF acc.high_price = None \/ candle.high > acc.high_price
                         THEN candle.high ELSE acc.high_price,
          volume |-> IF candle.volume # None
                     THEN acc.volume + candle.volume ELSE acc.volume,
          open_price |-> IF acc.open_stamp = None \/ candle.open_time < acc.open_stamp
                         THEN candle.open ELSE acc.open_price,
          open_stamp |-> IF acc.open_stamp = None \/ candle.open_time < acc.open_stamp
                         THEN candle.open_time ELSE acc.open_stamp,
          close_price |-> IF acc.close_stamp = None \/ candle.open_time > acc.close_stamp
                          THEN candle.close ELSE acc.close_price,
          close_stamp |-> IF acc.close_stamp = None \/ candle.open_time > acc.close_stamp
                          THEN candle.open_time ELSE acc.close_stamp]

RECURSIVE aggregate_loop(_, _, _)
aggregate_loop(candles, i, acc) ==
    IF i > Len(candles) THEN acc
    ELSE aggregate_loop(candles, i + 1, aggregate_step(acc, candles[i]))

aggregate_candles(period, candles) ==
    LET acc == aggregate_loop(candles, 1, NoAggregate)
    IN Candle(period, acc.open_stamp, acc.open_price, acc.high_price,
              acc.low_price, acc.close_price,
              IF acc.volume = 0 THEN None ELSE acc.volume)

\* a faulty variant: the loop goes on to the week that today is in
RECURSIVE weeks_begun(_, _)
weeks_begun(week_start, today) ==
    IF week_start <= today
    THEN <<aggregate_candles(INTERVAL_WEEK,
               InOrder(get_asset_within(INTERVAL_DAY, week_start, week_start + 7)))>>
         \o weeks_begun(week_start + 7, today)
    ELSE <<>>

\* the loop of sync_asset_weekly over the complete weeks before today
RECURSIVE weeks(_, _)
weeks(week_start, today) ==
    IF week_start + 7 < today
    THEN <<aggregate_candles(INTERVAL_WEEK,
               InOrder(get_asset_within(INTERVAL_DAY, week_start, week_start + 7)))>>
         \o weeks(week_start + 7, today)
    ELSE <<>>

\* a faulty variant: a roll-up without a candle of its own never starts
seed_refused(last_candle, first_daily_candle, seed_candle) ==
    last_candle = NoCandle

\* the two early returns of a roll-up that has no candle of its own yet: no
\* daily candle at all, or none on the day the roll-up starts from
seed_missing(last_candle, first_daily_candle, seed_candle) ==
    last_candle = NoCandle
        /\ (first_daily_candle = NoCandle \/ seed_candle = NoCandle)

\* what sync_asset_weekly returns and the candles it inserts
sync_asset_weekly_outcome ==
    LET last_candle == get_asset_last_candle(INTERVAL_WEEK)
        first_daily_candle == get_asset_first_candle(INTERVAL_DAY)
        monday_candle ==
            IF Weekday(first_daily_candle.open_time) # 0
            THEN get_daily_candle(Date(first_daily_candle.open_time)
                                  + (7 - Weekday(first_daily_candle.open_time)))
            ELSE first_daily_candle
        week_start ==
            IF last_candle = NoCandle
            THEN Date(monday_candle.open_time)
            ELSE IF Weekday(last_candle.open_time) # 0
                 THEN Date(last_candle.open_time) + (7 - Weekday(last_candle.open_time))
                 ELSE Date(last_candle.open_time) + 7
    IN IF seed_missing(last_candle, first_daily_candle, monday_candle)
       THEN [status |-> "failed", candles |-> <<>>]
       ELSE IF last_candle # NoCandle /\ last_candle.open_time = None
       THEN [status |-> "raised", candles |-> <<>>]
       ELSE [status |-> "ok", candles |-> weeks(week_start, utc_date)]

\* The calendar: day 0 is Monday 1 February 2021, and the months from then on
\* have these numbers of days.
DaysInMonth == <<28, 31, 30>>

RECURSIVE MonthStart(_)
MonthStart(m) == IF m = 1 THEN 0 ELSE MonthStart(m - 1) + DaysInMonth[m - 1]

MonthOf(d) ==
    CHOOSE m \in 1..Len(DaysInMonth) : MonthStart(m) <= d /\ d < MonthStart(m + 1)

\* date.day
DayOfMonth(d) == d - MonthStart(MonthOf(d)) + 1

\* date.replace(day=1) + relativedelta(months=1)
NextMonth(d) == MonthStart(MonthOf(d) + 1)

\* the loop of sync_asset_monthly over the complete months before today
RECURSIVE months(_, _)
months(month_start, today) ==
    IF NextMonth(month_start) - 1 < today
    THEN <<aggregate_candles(INTERVAL_MONTH,
               InOrder(get_asset_within(INTERVAL_DAY, month_start,
                                        NextMonth(month_start) - 1)))>>
         \o months(NextMonth(month_start), today)
    ELSE <<>>

\* what sync_asset_monthly returns and the candles it inserts
sync_asset_monthly_outcome ==
    LET last_candle == get_asset_last_candle(INTERVAL_MONTH)
        first_daily_candle == get_asset_first_candle(INTERVAL_DAY)
        first_of_month ==
            IF DayOfMonth(Date(first_daily_candle.open_time)) # 1
            THEN get_daily_candle(NextMonth(Date(first_daily_candle.open_time)))
            ELSE first_daily_candle
        month_start ==
            IF last_candle = NoCandle
            THEN Date(first_of_month.open_time)
            ELSE NextMonth(Date(last_candle.open_time))
    IN IF seed_missing(last_candle, first_daily_candle, first_of_month)
       THEN [status |-> "failed", candles |-> <<>>]
       ELSE IF last_candle # NoCandle /\ last_candle.open_time = None
       THEN [status |-> "raised", candles |-> <<>>]
       ELSE [status |-> "ok", candles |-> months(month_start, utc_date)]

\* AssetUpdaterAggregation.sync_asset: sync_asset_weekly, then
\* sync_asset_monthly unless the former has raised
sync_asset_aggregation ==
    LET weekly == sync_asset_weekly_outcome
        monthly == IF weekly.status = "raised"
                   THEN [status |-> "", candles |-> <<>>]
                   ELSE sync_asset_monthly_outcome
    IN /\ asset_class # ""
       /\ result = NoResult
       /\ store' = insert(monthly.candles, insert(weekly.candles, store))
       /\ result' = [Result("aggregation", "", <<>>, get_asset(INTERVAL_DAY) = {},
                             weekly.status, Len(weekly.candles),
                             weekly.candles = <<>> /\ monthly.candles = <<>>)
                      EXCEPT !.monthly = <<monthly.status, Len(monthly.candles)>>]
       /\ UNCHANGED <<asset_class, utc_date, earliest_timestamp, price>>

-----------------------------------------------------------------------------
GateInit == ProviderInit /\ WorkersInit

\* no instrument is stored; what the seed lists and the cap are has no part
\* in the syncs
SeedInit ==
    /\ currencies = EmptyBag
    /\ stocks = EmptyBag
    /\ startups = [c \in AssetClasses |-> 0]
    /\ inserted = [c \in AssetClasses |-> 0]

SeedIdle ==
    /\ SeedInit
    /\ supported_currencies = <<>>
    /\ supported_stocks = <<>>
    /\ limit_assets = TRUE
    /\ limit_assets_quantity = MaxQuantity

UnitInit == members = <<>> /\ aggregate = NoCandle /\ SeedIdle /\ PoolIdle /\ RateIdle /\ FetchIdle /\ ModeIdle /\ ConfigIdle /\ TrendsIdle

Init == GateInit /\ SchedInit /\ SyncInit /\ UnitInit

WorkerStep(w) ==
    \/ sync_asset_start(w)
    \/ lock_acquire(w)
    \/ read_time(w)
    \/ test(w)
    \/ release_full(w)
    \/ incr(w)
    \/ reset(w)
    \/ release_granted(w)
    \/ wake(w)
    \/ fetch_ok(w)
    \/ failures < MaxFailures /\ fetch_fail(w)
    \/ error_wait(w)

(* The request gate and the workers that pass through it. *)

Next ==
    \/ Tick /\ UNCHANGED <<schedVars, syncVars, unitVars>>
    \/ \E w \in Workers : WorkerStep(w) /\ UNCHANGED <<schedVars, syncVars, unitVars>>

Spec == Init /\ [][Next]_vars

-----------------------------------------------------------------------------
(* The gate under a wall clock that never stops.  The clock of Spec ends at  *)
(* MaxMinute; here, once it is there, a further minute boundary renumbers    *)
(* the minutes still in use (the stored minute and the minute a worker has   *)
(* read under the lock), keeping their order, so that the new minute is      *)
(* MaxMinute again.  The gate only compares minutes for equality.            *)

MinutesInUse == {time} \cup {curr_time[w] : w \in {v \in Workers : curr_time[v] # None}}

Renumber(m) == MaxMinute - 1 - Cardinality({v \in MinutesInUse : v > m})

TickOn ==
    /\ clock = MaxMinute
    /\ Cardinality(MinutesInUse) <= MaxMinute
    /\ time' = Renumber(time)
    /\ curr_time' = [w \in Workers |->
                        IF curr_time[w] = None THEN None ELSE Renumber(curr_time[w])]
    /\ grants' = [m \in Minutes |-> 0]
    /\ refused' = [w \in Workers |-> None]
    /\ UNCHANGED <<count, max_requests, lock, clock, pc, counter, exited, calls, failures>>

ClockStepLive == (Tick \/ TickOn) /\ UNCHANGED <<schedVars, syncVars, unitVars>>

WorkerStepLive(w) == WorkerStep(w) /\ UNCHANGED <<schedVars, syncVars, unitVars>>

LiveNext ==
    \/ ClockStepLive
    \/ \E w \in Workers : WorkerStepLive(w)

\* Threads are scheduled fairly and wall-clock time keeps advancing.
LiveSpec ==
    /\ Init
    /\ [][LiveNext]_vars
    /\ WF_vars(ClockStepLive)
    /\ \A w \in Workers : WF_vars(WorkerStepLive(w))

-----------------------------------------------------------------------------
(* The gate under a wall clock of half minutes: any two half minutes in a   *)
(* row are an interval of 60 seconds.                                       *)

\* 30 seconds pass; every other time this is a minute boundary
HalfTick ==
    /\ IF half = 0 THEN UNCHANGED gateVars ELSE Tick
    /\ half' = 1 - half
    /\ recent' = <<recent[2], 0>>

\* the statement of make_request that lets the caller through
granted(w) ==
    /\ incr(w) \/ reset(w)
    /\ recent' = <<recent[1], recent[2] + 1>>
    /\ UNCHANGED half

RateStep(w) ==
    \/ sync_asset_start(w)
    \/ lock_acquire(w)
    \/ read_time(w)
    \/ test(w)
    \/ release_full(w)
    \/ release_granted(w)
    \/ wake(w)
    \/ fetch_ok(w)

RateNext ==
    \/ HalfTick /\ UNCHANGED <<schedVars, syncVars, aggregateVars, seedVars, poolVars, fetchVars, modeVars, configVars, trendsVars>>
    \/ \E w \in Workers :
            granted(w) /\ UNCHANGED <<schedVars, syncVars, aggregateVars, seedVars, poolVars, fetchVars, modeVars, configVars, trendsVars>>
    \/ \E w \in Workers :
            RateStep(w) /\ UNCHANGED <<schedVars, syncVars, aggregateVars, seedVars,
                                       poolVars, rateVars, fetchVars, modeVars, configVars, trendsVars>>

RateSpec == Init /\ [][RateNext]_vars

-----------------------------------------------------------------------------
(* The retry loop of sync_asset: a few workers whose provider calls may     *)
(* fail any number of times.                                                *)

RetryWorkers == 1..NumRetryWorkers

RetryStep(w) ==
    \/ sync_asset_start(w)
    \/ lock_acquire(w)
    \/ read_time(w)
    \/ test(w)
    \/ release_full(w)
    \/ incr(w)
    \/ reset(w)
    \/ release_granted(w)
    \/ wake(w)
    \/ fetch_ok(w)
    \/ fetch_fail(w)
    \/ error_wait(w)

RetryNext ==
    \/ Tick /\ UNCHANGED <<schedVars, syncVars, unitVars>>
    \/ \E w \in RetryWorkers : RetryStep(w) /\ UNCHANGED <<schedVars, syncVars, unitVars>>

RetrySpec == Init /\ [][RetryNext]_vars

-----------------------------------------------------------------------------
(* The retry loop with a count of the requests the gate lets through and of *)
(* the provider calls (self.api.get_...) the workers issue.                 *)

FetchStep(w) ==
    /\ RetryStep(w)
    /\ given' = IF pc[w] \in {"incr", "reset"} THEN given + 1 ELSE given
    /\ issued' = IF pc[w] # "fetch" /\ pc'[w] = "fetch" THEN issued + 1 ELSE issued

FetchNext ==
    \/ Tick /\ UNCHANGED <<schedVars, syncVars, unitVars>>
    \/ \E w \in RetryWorkers :
            FetchStep(w) /\ UNCHANGED <<schedVars, syncVars, aggregateVars, seedVars,
                                        poolVars, rateVars, modeVars, configVars, trendsVars>>

FetchSpec == Init /\ [][FetchNext]_vars

-----------------------------------------------------------------------------
(* One call of a live syncer's sync_asset under any retry ceiling from 1 to  *)
(* MaxRetries, with a count of the provider calls it issues.                *)

LiveThread == 1

LiveRetryStep ==
    /\ \/ sync_asset_start(LiveThread)
       \/ lock_acquire(LiveThread)
       \/ read_time(LiveThread)
       \/ test(LiveThread)
       \/ release_full(LiveThread)
       \/ incr(LiveThread)
       \/ reset(LiveThread)
       \/ release_granted(LiveThread)
       \/ wake(LiveThread)
       \/ live_fetch_ok(LiveThread)
       \/ fetch_fail(LiveThread)
       \/ live_error_wait(LiveThread)
    /\ issued' = IF pc[LiveThread] # "fetch" /\ pc'[LiveThread] = "fetch"
                 THEN issued + 1 ELSE issued
    /\ UNCHANGED given

LiveRetryInit ==
    /\ GateInit
    /\ SchedInit
    /\ SyncInit
    /\ members = <<>> /\ aggregate = NoCandle
    /\ SeedIdle /\ PoolIdle /\ RateIdle /\ FetchIdle /\ ModeIdle /\ TrendsIdle
    /\ max_retries \in 1..MaxRetries

LiveRetryNext ==
    \/ Tick /\ UNCHANGED <<schedVars, syncVars, unitVars>>
    \/ LiveRetryStep /\ UNCHANGED <<schedVars, syncVars, aggregateVars, seedVars,
                                     poolVars, rateVars, modeVars, configVars, trendsVars>>

LiveRetrySpec == LiveRetryInit /\ [][LiveRetryNext]_vars

-----------------------------------------------------------------------------
(* The Trends updater: up to MaxTrendsRuns calls of do_update, one after    *)
(* the other in the polling thread, on a source of up to MaxSource          *)
(* instruments.  Its provider (the trends_provider of the asset class) is   *)
(* handed to the Trends updaters only, so no other thread is in its gate.   *)

TrendsThread == 1

otherGateVars == <<count, time, max_requests, lock, clock, curr_time, counter, exited,
                   grants, refused, failures>>

\* unused_quota = self.provider.get_unused_quota(); if unused_quota == 0: return
trends_do_update_start ==
    /\ pc[TrendsThread] = "idle"
    /\ calls[TrendsThread] < MaxTrendsRuns
    /\ calls' = [calls EXCEPT ![TrendsThread] = @ + 1]
    /\ unused_quota' = get_unused_quota
    /\ quota_at_start' = get_unused_quota
    /\ given' = 0
    /\ source_left' \in 0..MaxSource
    /\ pc' = [pc EXCEPT ![TrendsThread] = IF get_unused_quota = 0 THEN "idle" ELSE "loop"]
    /\ UNCHANGED <<otherGateVars, issued>>

\* for asset in self.source: the source is exhausted and do_update returns
trends_source_done ==
    /\ pc[TrendsThread] = "loop"
    /\ source_left = 0
    /\ pc' = [pc EXCEPT ![TrendsThread] = "idle"]
    /\ UNCHANGED <<otherGateVars, calls, trendsVars, fetchVars>>

\* the next instrument needs no sync: continue, or neither if is entered
\* (unused_quota is positive inside the loop)
trends_skip ==
    /\ pc[TrendsThread] = "loop"
    /\ source_left > 0
    /\ source_left' = source_left - 1
    /\ UNCHANGED <<gateVars, unused_quota, quota_at_start, fetchVars>>

\* the next instrument has no trend yet or a stale one: self.sync_trends(asset),
\* which starts with self.provider.make_request()
sync_trends_start ==
    /\ pc[TrendsThread] = "loop"
    /\ source_left > 0
    /\ pc' = [pc EXCEPT ![TrendsThread] = "lock"]
    /\ UNCHANGED <<otherGateVars, calls, trendsVars, fetchVars>>

\* Provider.make_request in the polling thread, with a count of its grants;
\* a request that the test refuses stays at "full", the head of the refused
\* path
trends_make_request ==
    /\ \/ lock_acquire(TrendsThread)
       \/ read_time(TrendsThread)
       \/ test(TrendsThread)
       \/ incr(TrendsThread)
       \/ reset(TrendsThread)
       \/ release_granted(TrendsThread)
    /\ given' = IF pc[TrendsThread] \in {"incr", "reset"} THEN given + 1 ELSE given
    /\ UNCHANGED <<trendsVars, issued>>

\* a faulty variant: the quota left is not counted down
sync_trends_returns_quota_kept ==
    /\ pc[TrendsThread] = "fetch"
    /\ unused_quota' = unused_quota
    /\ source_left' = source_left - 1
    /\ pc' = [pc EXCEPT ![TrendsThread] = "loop"]
    /\ issued' = issued + 1
    /\ UNCHANGED <<otherGateVars, calls, quota_at_start, given>>

\* sync_trends returns, with or without trends; unused_quota -= 1;
\* if unused_quota <= 0: break
sync_trends_returns ==
    /\ pc[TrendsThread] = "fetch"
    /\ unused_quota' = unused_quota - 1
    /\ source_left' = source_left - 1
    /\ pc' = [pc EXCEPT ![TrendsThread] = IF unused_quota - 1 <= 0 THEN "idle" ELSE "loop"]
    /\ issued' = issued + 1
    /\ UNCHANGED <<otherGateVars, calls, quota_at_start, given>>

\* sync_trends raises after make_request (latest_stamp read before it is
\* assigned, or TrendReq fails outside the try): do_update is left by the
\* exception
sync_trends_raises ==
    /\ pc[TrendsThread] = "fetch"
    /\ pc' = [pc EXCEPT ![TrendsThread] = "raised"]
    /\ UNCHANGED <<otherGateVars, calls, trendsVars, fetchVars>>

TrendsNext ==
    \/ Tick /\ UNCHANGED <<schedVars, syncVars, unitVars>>
    \/ /\ \/ trends_do_update_start
          \/ trends_source_done
          \/ trends_skip
          \/ sync_trends_start
          \/ trends_make_request
          \/ sync_trends_returns
          \/ sync_trends_raises
       /\ UNCHANGED <<schedVars, syncVars, aggregateVars, seedVars, poolVars, rateVars,
                      modeVars, configVars>>

TrendsSpec == Init /\ [][TrendsNext]_vars

-----------------------------------------------------------------------------
(* The choice of the sync_type alone: an instrument of either class with   *)
(* daily candles of days 0 and 1 or none, and a call made up to MaxModeDay  *)
(* days later, around midnight UTC and around the hour a stock bar opens.   *)

ModeTimesOfDay ==
    {0, 1, UtcOffset("Stock") - 1, UtcOffset("Stock"), UtcOffset("Stock") + 1,
     INTERVAL_DAY - 1}

ModeInit ==
    /\ GateInit /\ max_requests = MaxN
    /\ SchedInit
    /\ asset_class \in AssetClasses
    /\ utc_date \in 0..MaxModeDay
    /\ store \in {SetToBag({Bar(asset_class, d) : d \in days}) : days \in SUBSET {0, 1}}
    /\ earliest_timestamp = None
    /\ price = None
    /\ result = NoResult
    /\ members = <<>> /\ aggregate = NoCandle
    /\ SeedIdle /\ PoolIdle /\ RateIdle /\ FetchIdle /\ ConfigIdle /\ TrendsIdle
    /\ curr_time_utc \in {utc_date * INTERVAL_DAY + t : t \in ModeTimesOfDay}
    /\ sync_mode = ""

ModeNext ==
    choose_sync_type /\ UNCHANGED <<gateVars, schedVars, syncVars, aggregateVars,
                                    seedVars, poolVars, rateVars, fetchVars, configVars,
                                    trendsVars>>

ModeSpec == ModeInit /\ [][ModeNext]_vars

-----------------------------------------------------------------------------
(* The scheduler with the worker pools of its updaters, over the first      *)
(* MaxPoolNow seconds.                                                      *)

PoolNext ==
    \/ on_interval_check /\ UNCHANGED <<gateVars, syncVars, unitVars>>
    \/ do_update_start /\ UNCHANGED <<gateVars, syncVars, aggregateVars, seedVars, rateVars, fetchVars, modeVars, configVars, trendsVars>>
    \/ \E j \in Jobs :
            job_start(j) /\ UNCHANGED <<gateVars, syncVars, aggregateVars, seedVars, rateVars, fetchVars, modeVars, configVars, trendsVars>>
    \/ \E j \in Jobs, value \in {"ok", "failed"} :
            sync_asset_returns(j, value)
                /\ UNCHANGED <<gateVars, syncVars, aggregateVars, seedVars, rateVars, fetchVars, modeVars, configVars, trendsVars>>
    \/ \E j \in Jobs :
            sync_asset_raises(j)
                /\ UNCHANGED <<gateVars, syncVars, aggregateVars, seedVars, rateVars, fetchVars, modeVars, configVars, trendsVars>>
    \/ \E j \in Jobs :
            sync_asset_exits(j)
                /\ UNCHANGED <<gateVars, syncVars, aggregateVars, seedVars, rateVars, fetchVars, modeVars, configVars, trendsVars>>
    \/ pool_map_returns /\ UNCHANGED <<gateVars, syncVars, aggregateVars, seedVars, rateVars, fetchVars, modeVars, configVars, trendsVars>>
    \/ pool_map_raises /\ UNCHANGED <<gateVars, syncVars, aggregateVars, seedVars, rateVars, fetchVars, modeVars, configVars, trendsVars>>
    \/ do_update_return /\ UNCHANGED <<gateVars, syncVars, aggregateVars, seedVars, rateVars, fetchVars, modeVars, configVars, trendsVars>>
    \/ trends_do_update_finish /\ UNCHANGED <<gateVars, syncVars, unitVars>>
    \/ pass_start /\ UNCHANGED <<gateVars, syncVars, unitVars>>
    \/ now < MaxPoolNow /\ Elapse /\ UNCHANGED <<gateVars, syncVars, unitVars>>

PoolSpec == Init /\ [][PoolNext]_vars

-----------------------------------------------------------------------------
(* The scheduler alone. *)

SchedNext ==
    \/ on_interval_check /\ UNCHANGED <<gateVars, syncVars, unitVars>>
    \/ do_update_finish /\ UNCHANGED <<gateVars, syncVars, unitVars>>
    \/ trends_do_update_finish /\ UNCHANGED <<gateVars, syncVars, unitVars>>
    \/ pass_start /\ UNCHANGED <<gateVars, syncVars, unitVars>>
    \/ Elapse /\ UNCHANGED <<gateVars, syncVars, unitVars>>

SchedSpec == Init /\ [][SchedNext]_vars

-----------------------------------------------------------------------------
(* The daily sync of one instrument, with arbitrary provider responses. *)

SyncNext ==
    \/ \E c \in AssetClasses : on_startup(c) /\ UNCHANGED <<gateVars, schedVars, unitVars>>
    \/ \E data \in Responses(utc_date), no_data \in BOOLEAN, time_of_day \in TimesOfDay :
            /\ no_data => data = <<>>
            /\ sync_asset_daily(data, no_data, time_of_day)
            /\ UNCHANGED <<gateVars, schedVars, unitVars>>
    \/ sync_asset_return /\ UNCHANGED <<gateVars, schedVars, unitVars>>
    \/ utc_date < MaxSyncDay /\ NextDay /\ UNCHANGED <<gateVars, schedVars, unitVars>>

\* The sync does not depend on the quota of the gate.
InitSync == Init /\ max_requests = MaxN

SyncSpec == InitSync /\ [][SyncNext]_vars

-----------------------------------------------------------------------------
(* The daily sync of one instrument over the days 0..MaxDriftDay, when the   *)
(* response lists up to MaxBars days in any order, a day twice or the day    *)
(* after today among them, and midnight UTC may pass during the call.       *)

AnyDates(today) ==
    UNION {[1..n -> {d \in 0..(today + 1) : d >= today - MaxAge}] : n \in 0..MaxBars}

AnyResponses(today) == {Entries(s, 0, "none") : s \in AnyDates(today)}

AnySyncNext ==
    \/ \E c \in AssetClasses : on_startup(c) /\ UNCHANGED <<gateVars, schedVars, unitVars>>
    \/ \E data \in AnyResponses(utc_date), time_of_day \in TimesOfDay,
          midnight \in {None} \cup 0..MaxBars :
            /\ sync_asset_daily_at(data, time_of_day, midnight)
            /\ UNCHANGED <<gateVars, schedVars, unitVars>>
    \/ sync_asset_return /\ UNCHANGED <<gateVars, schedVars, unitVars>>
    \/ utc_date < MaxDriftDay /\ NextDay /\ UNCHANGED <<gateVars, schedVars, unitVars>>

AnySyncSpec == InitSync /\ [][AnySyncNext]_vars

-----------------------------------------------------------------------------
(* The daily sync and the weekly and monthly aggregation, for an equity     *)
(* (its bars carry a volume).  The provider quotes the business days: a     *)
(* response holds the MaxBars most recent of them.                          *)

RECURSIVE Recent(_, _)
Recent(d, n) ==
    IF n = 0 \/ d < 0 THEN <<>>
    ELSE IF Weekday(d * INTERVAL_DAY) < 5 THEN <<d>> \o Recent(d - 1, n - 1)
    ELSE Recent(d - 1, n)

Quotes(today) == {Entries(Recent(today, MaxBars), 0, "none")}

\* the stored daily candles that are bars of the provider
StoredBars == {c \in get_asset(INTERVAL_DAY) : c.open # None}

\* the stored weekly and monthly candles
Aggregated ==
    BagCardinality([c \in get_asset(INTERVAL_WEEK) \cup get_asset(INTERVAL_MONTH)
                        |-> CopiesIn(c, store)])

AggNext ==
    \/ on_startup("Stock") /\ UNCHANGED <<gateVars, schedVars, unitVars>>
    \/ \E data \in Quotes(utc_date), time_of_day \in TimesOfDay :
            /\ Cardinality(StoredBars) < MaxStoredBars
            /\ sync_asset_daily(data, FALSE, time_of_day)
            /\ UNCHANGED <<gateVars, schedVars, unitVars>>
    \/ /\ Aggregated < MaxAggregated
       /\ sync_asset_aggregation
       /\ UNCHANGED <<gateVars, schedVars, unitVars>>
    \/ \E rate \in 1..MaxRate, parsed \in BOOLEAN :
            sync_asset_live(rate, parsed) /\ UNCHANGED <<gateVars, schedVars, unitVars>>
    \/ sync_asset_return /\ UNCHANGED <<gateVars, schedVars, unitVars>>
    \/ NextDay /\ UNCHANGED <<gateVars, schedVars, unitVars>>

AggSpec == InitSync /\ [][AggNext]_vars

-----------------------------------------------------------------------------
(* The daily sync and the roll-ups for an instrument of either class that   *)
(* the provider quotes on every day of the calendar, weekends too: a        *)
(* response holds the MaxBars most recent days.                             *)

RECURSIVE RecentDays(_, _)
RecentDays(d, n) ==
    IF n = 0 \/ d < 0 THEN <<>> ELSE <<d>> \o RecentDays(d - 1, n - 1)

DailyQuotes(today) == {Entries(RecentDays(today, MaxBars), 0, "none")}

RollUpNext ==
    \/ \E c \in AssetClasses : on_startup(c) /\ UNCHANGED <<gateVars, schedVars, unitVars>>
    \/ \E data \in DailyQuotes(utc_date), time_of_day \in TimesOfDay :
            /\ Cardinality(StoredBars) < MaxStoredBars
            /\ sync_asset_daily(data, FALSE, time_of_day)
            /\ UNCHANGED <<gateVars, schedVars, unitVars>>
    \/ /\ Aggregated < MaxAggregated
       /\ sync_asset_aggregation
       /\ UNCHANGED <<gateVars, schedVars, unitVars>>
    \/ sync_asset_return /\ UNCHANGED <<gateVars, schedVars, unitVars>>
    \/ NextDay /\ UNCHANGED <<gateVars, schedVars, unitVars>>

RollUpSpec == InitSync /\ [][RollUpNext]_vars

-----------------------------------------------------------------------------
(* One call of aggregate_candles, on any short series of daily candles in   *)
(* any order of iteration, and on the five bars of the example week.        *)

\* a bar of day d with the given high and low, and a filler of day d
Member(d, high, low) ==
    Candle(INTERVAL_DAY, d * INTERVAL_DAY, low + 1 + d, high, low, low + 2 + d,
           ProviderVolume(d))

MemberFiller(d) == Filler(d * INTERVAL_DAY, 5 + d)

\* a bar of a day without a trade: the provider reports the volume 0
MemberUntraded(d) ==
    Candle(INTERVAL_DAY, d * INTERVAL_DAY, 4 + d, 10, 3, 5 + d, 0)

MembersOn(d) ==
    {MemberFiller(d), MemberUntraded(d)}
        \cup {Member(d, high, low) : high \in 10..(10 + MaxSpread),
                                     low \in 3..(3 + MaxSpread)}

\* the sequences of n candles of distinct days
RECURSIVE SeriesOf(_)
SeriesOf(n) ==
    IF n = 0 THEN {<<>>}
    ELSE UNION {{Append(s, c) : c \in UNION {MembersOn(d) :
                                    d \in {e \in 0..(MaxMembers - 1) :
                                        \A i \in 1..Len(s) :
                                            s[i].open_time # e * INTERVAL_DAY}}} :
                s \in SeriesOf(n - 1)}

Series == UNION {SeriesOf(n) : n \in 0..MaxMembers}

\* the week of the example: highs 10, 12, 9, 11, 13 and lows 5, 4, 6, 3, 7
ExampleHighs == <<10, 12, 9, 11, 13>>
ExampleLows == <<5, 4, 6, 3, 7>>
ExampleOpens == <<6, 5, 7, 4, 8>>
ExampleCloses == <<9, 11, 8, 10, 12>>

ExampleWeek ==
    [i \in 1..5 |-> Candle(INTERVAL_DAY, (i - 1) * INTERVAL_DAY, ExampleOpens[i],
                           ExampleHighs[i], ExampleLows[i], ExampleCloses[i],
                           ProviderVolume(i))]

\* the example week, oldest or most recent candle first
ExampleSeries == {ExampleWeek, [i \in 1..5 |-> ExampleWeek[6 - i]]}

aggregate_candles_call ==
    /\ aggregate = NoCandle
    /\ aggregate' = aggregate_candles(INTERVAL_WEEK, members)
    /\ UNCHANGED members

AggregateInit ==
    /\ GateInit /\ max_requests = MaxN
    /\ SchedInit
    /\ SyncInit
    /\ members \in Series \cup ExampleSeries
    /\ aggregate = NoCandle
    /\ SeedIdle
    /\ PoolIdle /\ RateIdle /\ FetchIdle /\ ModeIdle /\ ConfigIdle /\ TrendsIdle

AggregateNext ==
    aggregate_candles_call /\ UNCHANGED <<gateVars, schedVars, syncVars, seedVars, poolVars, rateVars, fetchVars, modeVars, configVars, trendsVars>>

-----------------------------------------------------------------------------
(* The startup of the two asset classes, run up to MaxStartups times each,  *)
(* on any seed lists of at most MaxRows rows and any setting of the cap.    *)

Row(ticker, name) == [ticker |-> ticker, name |-> name]

\* the rows a seed list is made of: two share a ticker, two a name
Rows == {Row("AAA", "Alpha"), Row("AAA", "Beta"), Row("BBB", "Beta")}

SeedLists == UNION {[1..n -> Rows] : n \in 0..MaxRows}

\* a faulty variant: a row is taken as missing without a search
missing_unsearched(row, objects, full_load) == TRUE

\* Currency.objects(ticker=row[0], name=row[1]).first() is None, which is not
\* asked on a full load
missing(row, objects, full_load) == full_load \/ ~BagIn(row, objects)

\* the loop of CurrencyClass.on_startup over the rows, from row i on
RECURSIVE currency_rows(_, _, _, _)
currency_rows(rows, i, full_load, new) ==
    IF i > Len(rows) THEN new
    ELSE currency_rows(rows, i + 1, full_load,
             IF missing(rows[i], currencies, full_load)
             THEN Append(new, rows[i]) ELSE new)

\* the loop of StockClass.on_startup over the rows, from row i on
RECURSIVE stock_rows(_, _, _, _)
stock_rows(rows, i, count_stocks, new) ==
    IF i > Len(rows) THEN new
    ELSE LET search_is_none == missing(rows[i], stocks, FALSE)
             found == IF search_is_none THEN Append(new, rows[i]) ELSE new
             counted == IF search_is_none THEN count_stocks + 1 ELSE count_stocks
         IN IF limit_assets /\ counted >= limit_assets_quantity
            THEN found
            ELSE stock_rows(rows, i + 1, counted, found)

CurrencyClass_on_startup ==
    LET full_load == BagCardinality(currencies) = 0
        new == currency_rows(supported_currencies, 1, full_load, <<>>)
    IN /\ startups["Currency"] < MaxStartups
       /\ currencies' = insert(new, currencies)
       /\ startups' = [startups EXCEPT !["Currency"] = @ + 1]
       /\ inserted' = [inserted EXCEPT !["Currency"] = Len(new)]
       /\ UNCHANGED <<stocks, supported_currencies, supported_stocks, limit_assets,
                      limit_assets_quantity>>

StockClass_on_startup ==
    LET new == stock_rows(supported_stocks, 1, BagCardinality(stocks), <<>>)
    IN /\ startups["Stock"] < MaxStartups
       /\ stocks' = insert(new, stocks)
       /\ startups' = [startups EXCEPT !["Stock"] = @ + 1]
       /\ inserted' = [inserted EXCEPT !["Stock"] = Len(new)]
       /\ UNCHANGED <<currencies, supported_currencies, supported_stocks,
                      limit_assets, limit_assets_quantity>>

StartupInit ==
    /\ GateInit /\ max_requests = MaxN
    /\ SchedInit
    /\ SyncInit
    /\ members = <<>> /\ aggregate = NoCandle
    /\ PoolIdle /\ RateIdle /\ FetchIdle /\ ModeIdle /\ ConfigIdle /\ TrendsIdle
    /\ SeedInit
    /\ supported_currencies \in SeedLists
    /\ supported_stocks \in SeedLists
    /\ limit_assets \in BOOLEAN
    /\ limit_assets_quantity \in 0..MaxQuantity

StartupNext ==
    \/ CurrencyClass_on_startup
            /\ UNCHANGED <<gateVars, schedVars, syncVars, aggregateVars, poolVars, rateVars, fetchVars, modeVars, configVars, trendsVars>>
    \/ StockClass_on_startup
            /\ UNCHANGED <<gateVars, schedVars, syncVars, aggregateVars, poolVars, rateVars, fetchVars, modeVars, configVars, trendsVars>>

StartupSpec == StartupInit /\ [][StartupNext]_vars

\* supported_stocks.csv is read anew by every on_startup: between two runs of
\* the process the file may have become any other seed list
edit_supported_stocks ==
    /\ supported_stocks' \in SeedLists \ {supported_stocks}
    /\ UNCHANGED <<currencies, stocks, supported_currencies, limit_assets,
                   limit_assets_quantity, startups, inserted>>

\* the equities alone, with a seed list that changes between the runs
ReseedInit ==
    /\ GateInit /\ max_requests = MaxN
    /\ SchedInit
    /\ SyncInit
    /\ members = <<>> /\ aggregate = NoCandle
    /\ PoolIdle /\ RateIdle /\ FetchIdle /\ ModeIdle /\ ConfigIdle /\ TrendsIdle
    /\ SeedInit
    /\ supported_currencies = <<>>
    /\ supported_stocks \in SeedLists
    /\ limit_assets \in BOOLEAN
    /\ limit_assets_quantity \in 0..MaxQuantity

ReseedNext ==
    \/ StockClass_on_startup
            /\ UNCHANGED <<gateVars, schedVars, syncVars, aggregateVars, poolVars, rateVars, fetchVars, modeVars, configVars, trendsVars>>
    \/ edit_supported_stocks
            /\ UNCHANGED <<gateVars, schedVars, syncVars, aggregateVars, poolVars, rateVars, fetchVars, modeVars, configVars, trendsVars>>

ReseedSpec == ReseedInit /\ [][ReseedNext]_vars

AggregateSpec == AggregateInit /\ [][AggregateNext]_vars

-----------------------------------------------------------------------------
InMakeRequest(w) ==
    pc[w] \in {"lock", "time", "test", "full", "incr", "reset", "unlock", "sleep"}

InCriticalSection(w) ==
    pc[w] \in {"time", "test", "full", "incr", "reset", "unlock"}

\* A step in which worker w is granted a request / is refused one.
Granted(w) == pc[w] \in {"incr", "reset"} /\ pc'[w] = "unlock"
Refused(w) == pc[w] = "full" /\ pc'[w] = "sleep"

\* The number of requests a caller arriving now would be granted without
\* blocking before the wall-clock minute advances again.
GrantableNow == IF clock = time THEN max_requests - count ELSE max_requests

-----------------------------------------------------------------------------
(* The request gate: claims C1 - C5. *)

\* C1: for every minute m, the number of requests granted while the stored
\* minute is m never exceeds max_requests, and count <= max_requests always.
C1_BucketNeverExceedsMax ==
    /\ count <= max_requests
    /\ \A m \in Minutes : grants[m] <= max_requests

\* A bucket is full and a further caller has been refused in it.
C1_Witness ==
    \E w \in Workers :
        /\ pc[w] = "sleep"
        /\ refused[w] = time
        /\ grants[time] = max_requests
        /\ count = max_requests

C3_EveryCallReturns ==
    \A w \in Workers : InMakeRequest(w) ~> (pc[w] = "fetch" \/ exited)

\* A call that had to wait has returned and its provider call is in flight.
C3_Witness ==
    \E w \in Workers : pc[w] = "fetch" /\ refused[w] # None

\* C4: the lock is held only between acquire and release inside make_request:
\* never by a worker that sleeps the backoff, waits for the lock, has its
\* provider call in flight, sleeps the error wait or is outside sync_asset.
C4_LockOnlyInCriticalSection ==
    \A w \in Workers : lock = w => InCriticalSection(w)

\* One worker sleeps the backoff, another has its provider call in flight,
\* and a third one holds the lock.
C4_Witness ==
    \E w, v, u \in Workers :
        /\ pc[w] = "sleep"
        /\ pc[v] = "fetch"
        /\ lock = u
        /\ u # w /\ u # v

\* C5: whenever no call is inside the gate, get_unused_quota() is the number
\* of requests that can still be granted in the current wall-clock minute.
C5_UnusedQuotaIsGrantable ==
    lock = Free => get_unused_quota = GrantableNow

-----------------------------------------------------------------------------
(* The interval scheduler: claims C6 and C7. *)

\* C6: when an updater's do_update has completed, its last_update is the
\* time of that completion and the updater is not due.
C6_LastUpdateSetOnCompletion ==
    last_finish.updater # "" =>
        /\ last_update[last_finish.updater] = last_finish.at
        /\ ~requires_update(last_finish.updater)

\* C7: at every check of on_interval, do_update is invoked exactly when
\* last_update is unset or at least interval seconds have elapsed since it;
\* the first check of every updater invokes it.
C7_InvokedIffDue ==
    last_check.updater # "" =>
        /\ last_check.invoked <=>
              \/ last_check.last_update = None
              \/ last_check.at - last_check.last_update >= interval(last_check.updater)
        /\ (last_check.first => last_check.invoked)

\* An updater that ran before is checked exactly interval seconds after its
\* last_update and is invoked again.
C7_Witness ==
    /\ last_check.updater = "Daily"
    /\ last_check.last_update # None
    /\ last_check.at - last_check.last_update = interval("Daily")
    /\ last_check.invoked
    /\ loop_pc = "run"

-----------------------------------------------------------------------------
(* The stored candles: claims C8 - C10. *)

\* the stored candles of a period that open on date d
CandlesOn(period, d) ==
    {c \in get_asset(period) : c.open_time # None /\ Date(c.open_time) = d}

\* how many of them there are
Copies(cs) == BagCardinality([c \in cs |-> CopiesIn(c, store)])

DailyDates == {d \in 0..MaxDay : CandlesOn(INTERVAL_DAY, d) # {}}

IsFiller(c) == c.interval = INTERVAL_DAY /\ c.open = None

\* the daily candles that are real bars and open before time t
RealBarsBefore(t) ==
    {c \in get_asset(INTERVAL_DAY) : c.open # None /\ c.open_time < t}

\* C8: between the earliest and the latest stored daily candle of the
\* instrument, every calendar date has exactly one daily candle.
C8_NoGapInDailyCandles ==
    \A d \in 0..MaxDay :
        (\E a, b \in DailyDates : a <= d /\ d <= b) =>
            Copies(CandlesOn(INTERVAL_DAY, d)) = 1

\* C9: no two stored candles of the instrument with the same interval (day
\* or week) have the same open_time.
C9_OpenTimeUnique ==
    \A c \in BagToSet(store) :
        Copies({o \in get_asset(c.interval) : o.open_time = c.open_time}) = 1

\* C10: every stored filler candle carries the close of the nearest real bar
\* that opens before it.
C10_FillerCarriesEarlierClose ==
    \A f \in get_asset(INTERVAL_DAY) :
        IsFiller(f) =>
            \E r \in RealBarsBefore(f.open_time) :
                /\ \A o \in RealBarsBefore(f.open_time) : o.open_time <= r.open_time
                /\ f.close = r.close

\* Real bars on day 1 (close 100) and day 5 (close 110) are stored, and
\* fillers with close 100 for the days 2, 3 and 4.
C10_Witness ==
    /\ \E c \in CandlesOn(INTERVAL_DAY, 1) : c.open # None /\ c.close = 100
    /\ \E c \in CandlesOn(INTERVAL_DAY, 5) : c.open # None /\ c.close = 110
    /\ \A d \in 2..4 :
            \E c \in CandlesOn(INTERVAL_DAY, d) : IsFiller(c) /\ c.close = 100

-----------------------------------------------------------------------------
(* The daily sync: claims C11 - C14. *)

\* C11: every stored filler candle has high = low = close (the filler price)
\* and no volume.
C11_FillerHighLowClose ==
    \A f \in get_asset(INTERVAL_DAY) :
        IsFiller(f) => f.high = f.close /\ f.low = f.close /\ f.volume = None

\* the dates of the bars of a response
BarDates(data) == {data[i].date : i \in 1..Len(data)}

\* a response without a malformed entry whose bars are all dated before today
FullResponse(data) ==
    /\ data # <<>>
    /\ \A i \in 1..Len(data) : data[i].fault = "none" /\ data[i].date < utc_date

\* C12: after sync_asset on a never-synced instrument with a full response,
\* the store holds exactly the bar of every entry, one filler for every other
\* day between the oldest bar and today and nothing else, the call returned
\* (True, number of stored candles) and earliest_timestamp is the open_time
\* of the oldest bar.
C12_FirstFullSync ==
    (result.op = "daily" /\ result.first /\ FullResponse(result.data)) =>
        LET dates == BarDates(result.data)
            oldest == CHOOSE d \in dates : \A o \in dates : d <= o
        IN /\ result.status = "ok"
           /\ result.n = BagCardinality(store)
           /\ \A d \in 0..MaxDay :
                 IF d \in dates
                 THEN /\ CandlesOn(INTERVAL_DAY, d) = {Bar(asset_class, d)}
                      /\ CopiesIn(Bar(asset_class, d), store) = 1
                 ELSE IF oldest < d /\ d < utc_date
                 THEN /\ Copies(CandlesOn(INTERVAL_DAY, d)) = 1
                      /\ \A c \in CandlesOn(INTERVAL_DAY, d) : IsFiller(c)
                 ELSE CandlesOn(INTERVAL_DAY, d) = {}
           /\ earliest_timestamp = Bar(asset_class, oldest).open_time

\* Bars for Monday, Tuesday and Wednesday synced on Thursday: three real
\* candles, no filler, earliest_timestamp is Monday.
C12_Witness ==
    /\ result.op = "daily" /\ result.first /\ FullResponse(result.data)
    /\ BarDates(result.data) = {0, 1, 2}
    /\ utc_date = 3
    /\ BagCardinality(store) = 3
    /\ \A c \in BagToSet(store) : ~IsFiller(c)
    /\ Date(earliest_timestamp) = 0

\* a worker that is about to make, or is making, a provider attempt
InAttempt(w) == InMakeRequest(w) \/ pc[w] = "fetch"

\* C13: an attempt is only made after fewer than 5 failed attempts of the
\* call; a successful attempt ends the loop and the call goes on; the fifth
\* failure ends the process, and nothing else does.
C13_RetryCeiling ==
    /\ [](\A w \in Workers :
            /\ InAttempt(w) => counter[w] < DAILY_MAX_RETRIES
            /\ pc[w] = "exit" => counter[w] = DAILY_MAX_RETRIES
            /\ exited <=> \E v \in Workers : pc[v] = "exit")
    /\ [][\A w \in Workers :
            /\ (pc[w] = "wait" /\ pc'[w] # "wait") =>
                  IF counter[w] + 1 = DAILY_MAX_RETRIES
                  THEN pc'[w] = "exit" /\ exited'
                  ELSE pc'[w] = "lock" /\ counter'[w] = counter[w] + 1
            /\ (pc[w] = "fetch" /\ pc'[w] # "fetch") =>
                  \/ pc'[w] = "idle" /\ counter'[w] = DAILY_MAX_RETRIES
                  \/ pc'[w] = "wait" /\ counter'[w] = counter[w]
            /\ exited => pc'[w] = pc[w]]_vars

\* The fifth attempt of a call has failed and the process has been ended.
C13_Witness ==
    \E w \in Workers :
        pc[w] = "exit" /\ counter[w] = DAILY_MAX_RETRIES /\ failures >= 5 /\ exited


\* entry i of the response ends the loop before anything is parsed from it
Breaks(data, i, latest_candle, today) ==
    /\ data[i].date # today
    /\ latest_candle # NoCandle
    /\ data[i].date <= Date(latest_candle.open_time)

\* the loop reaches a malformed entry and acts on what is malformed in it
MalformedProcessed(data, latest_candle, today) ==
    \E i \in 1..Len(data) :
        /\ \A j \in 1..(i - 1) : ~Breaks(data, j, latest_candle, today)
        /\ \/ data[i].fault \in {"payload", "date"}
           \/ /\ data[i].fault = "field"
              /\ data[i].date # today
              /\ ~Breaks(data, i, latest_candle, today)

\* C14: a daily sync that processes a malformed entry returns (False, 0) and
\* leaves the store and the instrument record as they were.
C14_MalformedEntryStoresNothing ==
    [][(/\ result = NoResult
        /\ result'.op = "daily"
        /\ result'.type # "nosync"
        /\ MalformedProcessed(result'.data, get_asset_last_candle(INTERVAL_DAY),
                              utc_date))
       => /\ result'.status = "failed"
          /\ result'.n = 0
          /\ store' = store
          /\ earliest_timestamp' = earliest_timestamp
          /\ asset_class' = asset_class
          /\ price' = price]_vars

\* A sync failed on a bar that could not be built, after it had parsed a
\* valid bar newer than every stored candle.
C14_Witness ==
    /\ result.op = "daily"
    /\ result.type # "nosync"
    /\ result.status = "failed"
    /\ Len(result.data) >= 2
    /\ result.data[1].fault = "none"
    /\ result.data[1].date < utc_date
    /\ result.data[Len(result.data)].fault = "field"
    /\ get_asset(INTERVAL_DAY) # {}
    /\ \A c \in get_asset(INTERVAL_DAY) :
           Date(c.open_time) < result.data[Len(result.data)].date


-----------------------------------------------------------------------------
(* The aggregation and the startup: claims C15 - C20. *)

\* C15: every step of the pipeline (startup, daily sync, live sync,
\* aggregation) leaves every stored candle in the store, with all its fields
\* and as many copies as before.
C15_StoreOnlyGrows == [][store \sqsubseteq store']_vars

\* Daily candles, a weekly and a monthly candle are stored, and a live price.
C15_Witness ==
    /\ get_asset(INTERVAL_DAY) # {}
    /\ get_asset(INTERVAL_WEEK) # {}
    /\ get_asset(INTERVAL_MONTH) # {}
    /\ price # None


\* the candles aggregate_candles does not skip
WithOpen(cs) == {cs[i] : i \in {j \in 1..Len(cs) : cs[j].open # None}}

\* C16: the candle aggregate_candles returns has the least low and the
\* greatest high of the given candles that have an open, the open and the
\* open_time of the earliest of them and the close of the latest, in whatever
\* order they are iterated; the candles without an open change nothing.
C16_AggregateOfMembers ==
    aggregate # NoCandle =>
        /\ aggregate = aggregate_candles(INTERVAL_WEEK,
                           SelectSeq(members, LAMBDA c : c.open # None))
        /\ \A first, last \in WithOpen(members) :
               (\A c \in WithOpen(members) :
                    first.open_time <= c.open_time /\ c.open_time <= last.open_time)
               => /\ aggregate.open = first.open
                  /\ aggregate.open_time = first.open_time
                  /\ aggregate.close = last.close
                  /\ \A c \in WithOpen(members) :
                         aggregate.low <= c.low /\ aggregate.high >= c.high
                  /\ \E c \in WithOpen(members) : aggregate.low = c.low
                  /\ \E c \in WithOpen(members) : aggregate.high = c.high

\* The example week has been aggregated, most recent candle first: high 13,
\* low 3, Monday's open and Friday's close.
C16_Witness ==
    /\ Len(members) = 5
    /\ members[1] = ExampleWeek[5]
    /\ aggregate.high = 13
    /\ aggregate.low = 3
    /\ aggregate.open = ExampleWeek[1].open
    /\ aggregate.close = ExampleWeek[5].close
    /\ aggregate.open_time = ExampleWeek[1].open_time


\* C17: right after a run of the aggregation, a second run on the same
\* stored candles and the same date has no weekly and no monthly candle to
\* insert.
C17_SecondRunStoresNothing ==
    result.op = "aggregation" =>
        /\ sync_asset_weekly_outcome.candles = <<>>
        /\ sync_asset_monthly_outcome.candles = <<>>


\* the Monday of the week of date d, and the last day of the month of date d
MondayOf(d) == d - (d % 7)
MonthEnd(d) == NextMonth(d) - 1

\* C18: a stored weekly candle that opens in the week starting Monday M is
\* only there when the current date is later than M + 6, and a stored monthly
\* candle only when the current date is later than the last day of the month
\* it opens in; a run of the aggregation inserts one candle for each week and
\* month it finds elapsed, no more.
C18_OnlyElapsedPeriods ==
    /\ \A c \in get_asset(INTERVAL_WEEK) :
           c.open_time # None => MondayOf(Date(c.open_time)) + 6 < utc_date
    /\ \A c \in get_asset(INTERVAL_MONTH) :
           c.open_time # None => MonthEnd(Date(c.open_time)) < utc_date
    /\ result.op = "aggregation" =>
           /\ result.n <= utc_date \div 7
           /\ result.monthly[2] <= MonthOf(utc_date) - 1

\* The weekly candle of the week of day 21 and the monthly candle of the
\* first month are stored on the first day they can be: days 29 and 28.
C18_Witness ==
    /\ \E c \in get_asset(INTERVAL_WEEK) :
           c.open_time # None /\ MondayOf(Date(c.open_time)) + 8 = utc_date
    /\ \E c \in get_asset(INTERVAL_MONTH) :
           c.open_time # None /\ MonthEnd(Date(c.open_time)) + 2 = utc_date


\* the daily candle a first weekly, and a first monthly, roll-up starts from
WeeklySeed ==
    LET first == get_asset_first_candle(INTERVAL_DAY)
    IN IF first = NoCandle \/ Weekday(first.open_time) = 0 THEN first
       ELSE get_daily_candle(MondayOf(Date(first.open_time)) + 7)

MonthlySeed ==
    LET first == get_asset_first_candle(INTERVAL_DAY)
    IN IF first = NoCandle \/ DayOfMonth(Date(first.open_time)) = 1 THEN first
       ELSE get_daily_candle(NextMonth(Date(first.open_time)))

\* the candles of a period that are stored after the step
StoredNext(period) == {c \in BagToSet(store') : c.interval = period}

\* C19: a run of the aggregation for an instrument without a weekly
\* (monthly) candle and without the daily candle to start the weekly
\* (monthly) roll-up from returns (False, 0) from sync_asset_weekly
\* (sync_asset_monthly) and stores no weekly (monthly) candle; with that
\* daily candle stored and its week (month) over, the run inserts candles.
C19_UnseededRollUpFails ==
    [][(result = NoResult /\ result'.op = "aggregation") =>
          /\ (get_asset(INTERVAL_WEEK) = {} /\ WeeklySeed = NoCandle) =>
                 /\ result'.status = "failed" /\ result'.n = 0
                 /\ StoredNext(INTERVAL_WEEK) = {}
          /\ (get_asset(INTERVAL_MONTH) = {} /\ MonthlySeed = NoCandle) =>
                 /\ result'.monthly = <<"failed", 0>>
                 /\ StoredNext(INTERVAL_MONTH) = {}
          /\ (/\ get_asset(INTERVAL_WEEK) = {}
              /\ WeeklySeed # NoCandle
              /\ Date(WeeklySeed.open_time) + 7 < utc_date) =>
                 /\ result'.status = "ok" /\ result'.n >= 1
                 /\ StoredNext(INTERVAL_WEEK) # {}
          /\ (/\ get_asset(INTERVAL_MONTH) = {}
              /\ MonthlySeed # NoCandle
              /\ MonthEnd(Date(MonthlySeed.open_time)) < utc_date) =>
                 /\ result'.monthly[1] = "ok" /\ result'.monthly[2] >= 1
                 /\ StoredNext(INTERVAL_MONTH) # {}]_vars

\* Both roll-ups have returned (False, 0) for an instrument that has daily
\* candles, but none on the Monday and the first of the month they need.
C19_Witness ==
    /\ result.op = "aggregation"
    /\ result.status = "failed" /\ result.n = 0
    /\ result.monthly = <<"failed", 0>>
    /\ get_asset(INTERVAL_DAY) # {}
    /\ WeeklySeed = NoCandle
    /\ MonthlySeed = NoCandle
    /\ get_asset(INTERVAL_WEEK) \cup get_asset(INTERVAL_MONTH) = {}


\* the rows of a seed list that are stored after a startup
Seeded(rows, objects) == \A i \in 1..Len(rows) : BagIn(rows[i], objects)

\* the rows the capped startup of the equities gets to on its first run
Capped(rows) ==
    IF limit_assets /\ limit_assets_quantity < Len(rows)
    THEN SubSeq(rows, 1, IF limit_assets_quantity = 0 THEN 1 ELSE limit_assets_quantity)
    ELSE rows

\* C20 as stated: after the first on_startup of a class every row of its seed
\* list is stored, with or without the cap, and a second on_startup inserts
\* nothing.
C20_EverySeedStored ==
    /\ startups["Currency"] >= 1 => Seeded(supported_currencies, currencies)
    /\ startups["Stock"] >= 1 => Seeded(supported_stocks, stocks)
    /\ \A c \in AssetClasses : startups[c] >= 2 => inserted[c] = 0

\* C20 as amended: after the first on_startup every row of the currencies'
\* seed list is stored, and every row of the equities' seed list up to the
\* cap (at least the first row, all rows without the cap); a second
\* on_startup inserts nothing.
C20_SeedStoredUpToCap ==
    /\ startups["Currency"] >= 1 => Seeded(supported_currencies, currencies)
    /\ startups["Stock"] >= 1 => Seeded(Capped(supported_stocks), stocks)
    /\ \A c \in AssetClasses : startups[c] >= 2 => inserted[c] = 0

\* Both classes have started twice; the cap has kept the equities to the
\* first two of three rows, and the second runs have inserted nothing.
C20_Witness ==
    /\ startups = [c \in AssetClasses |-> 2]
    /\ inserted = [c \in AssetClasses |-> 0]
    /\ limit_assets /\ limit_assets_quantity = 2
    /\ Len(supported_stocks) = 3
    /\ BagCardinality(stocks) = 2
    /\ BagCardinality(currencies) = Len(supported_currencies)
    /\ Len(supported_currencies) = 3


-----------------------------------------------------------------------------
(* The seeding cap, the fan-out, the gate's rate and the daily sync's      *)
(* choices: claims C21 - C30.                                              *)

\* C21: with the cap on, an on_startup of the equities that starts with at
\* most LIMIT_ASSETS_QUANTITY stored stocks ends with at most that many,
\* whatever the seed list and the stocks already stored.
C21_CapKept ==
    [][(/\ startups'["Stock"] = startups["Stock"] + 1
        /\ limit_assets
        /\ BagCardinality(stocks) <= limit_assets_quantity)
       => BagCardinality(stocks') <= limit_assets_quantity]_vars


\* the stored instruments of a class have pairwise different tickers
UniqueTickers(objects) ==
    \A a \in BagToSet(objects) :
        /\ CopiesIn(a, objects) = 1
        /\ \A b \in BagToSet(objects) : a.ticker = b.ticker => a = b

\* C22: after any on_startup runs no two stored instruments of the same
\* class share a ticker, also when the seed list names a ticker twice.
C22_TickerUniqueInClass == UniqueTickers(currencies) /\ UniqueTickers(stocks)


\* every sync_asset call of the pool has returned
Returned(js) == \A j \in Jobs : js[j] \in {"ok", "failed"}

\* C23: a do_update of the Live, Daily or Aggregation updater sets
\* last_update, and returns to on_interval, only when the sync_asset call of
\* every item handed to the pool has completed; the loop goes to sleep only
\* when no call of the pass is queued or running.
C23_JoinBeforeReturn ==
    [][/\ (last_update' # last_update => Returned(jobs))
       /\ (loop_pc = "run" /\ loop_pc' \in {"check", "sleep"}
             /\ updaters[idx] # "Trends" => Returned(jobs))
       /\ (loop_pc' = "sleep" =>
             \A j \in Jobs : jobs'[j] \notin {"queued", "running"})]_vars

\* The pass is over and the loop sleeps: the Aggregation updater, the last to
\* use the pool, has returned at this time after one of its calls returned
\* [False, 0] and the others [True, n].
C23_Witness ==
    /\ loop_pc = "sleep"
    /\ last_update["Aggregation"] = now
    /\ last_update["Daily"] # None /\ last_update["Daily"] < now
    /\ pool = "none"
    /\ \E j \in Jobs : /\ jobs[j] = "failed"
                       /\ \A k \in Jobs \ {j} : jobs[k] = "ok"


\* the live do_update has ended, by its return or with the process
LiveEnded ==
    \/ last_finish.updater = "Live"
    \/ updaters[idx] = "Live" /\ loop_pc \in {"exit", "raised"}

\* C24 as stated: when the live do_update has ended, every chunk has been
\* synced except those that failed themselves, exhausted retries included:
\* no chunk is left queued or running because another one failed.
C24_FailureIsolated ==
    LiveEnded => \A j \in Jobs : jobs[j] \notin {"queued", "running"}

\* C24 as amended: the same for the failures that make sync_asset return
\* [False, 0] or raise; exhausted retries end the process at once.
C24_FailureIsolatedUnlessFatal ==
    LiveEnded /\ (\A j \in Jobs : jobs[j] # "exhausted")
        => \A j \in Jobs : jobs[j] \notin {"queued", "running"}

\* The live do_update has returned: two chunks failed and every other chunk
\* was synced.
C24_Witness ==
    /\ last_finish.updater = "Live"
    /\ last_update["Live"] = now
    /\ \E j, k \in Jobs :
            /\ j # k
            /\ jobs[j] = "failed" /\ jobs[k] = "failed"
            /\ \A o \in Jobs \ {j, k} : jobs[o] = "ok"


\* C25: in any interval of 60 seconds (two half minutes in a row, wherever
\* the minute boundary lies in them) the gate grants at most twice
\* max_requests requests.
C25_AtMostTwiceMax == recent[1] + recent[2] <= 2 * max_requests


\* C26: every provider call, a retry too, follows a make_request of its own
\* that has let the worker through: the calls issued never outnumber the
\* requests the gate has let through, and every request let through is used
\* for one call, once make_request has returned.
C26_CallsWithinGrants ==
    /\ issued <= given
    /\ given = issued + Cardinality({w \in RetryWorkers : pc[w] = "unlock"})

\* A worker is in its third provider call, after two failures and three
\* passes through the gate; the other worker has made a call too.
C26_Witness ==
    /\ \E w \in RetryWorkers :
            /\ pc[w] = "fetch"
            /\ counter[w] = 2
            /\ \E v \in RetryWorkers \ {w} : pc[v] = "idle" /\ calls[v] = 1
    /\ failures = 2
    /\ issued = 4
    /\ given = 4


\* the age of the latest stored daily candle at the call, in seconds
Age == curr_time_utc - get_asset_last_candle(INTERVAL_DAY).open_time

\* C27: the daily sync chooses full when no daily candle is stored; else,
\* with a the age of the latest one in days, nothing for a <= 2, compact for
\* 2 < a < 99 and full for a >= 99.
C27_ModeFromAge ==
    sync_mode # "" =>
        IF get_asset(INTERVAL_DAY) = {} THEN sync_mode = DAILY_SYNC_FULL
        ELSE /\ Age <= 2 * INTERVAL_DAY => sync_mode = "nosync"
             /\ 2 * INTERVAL_DAY < Age /\ Age < 99 * INTERVAL_DAY
                    => sync_mode = DAILY_SYNC_COMPACT
             /\ Age >= 99 * INTERVAL_DAY => sync_mode = DAILY_SYNC_FULL

\* A stock whose latest bar opened exactly 99 days before the call: full.
C27_Witness ==
    /\ asset_class = "Stock"
    /\ get_asset(INTERVAL_DAY) # {}
    /\ Age = 99 * INTERVAL_DAY
    /\ sync_mode = DAILY_SYNC_FULL


\* C28: when a daily sync_asset has returned success with candles stored,
\* the newest stored daily candle is dated the day before the current UTC
\* date, and a sync_asset run again at once, whatever the provider would
\* answer, chooses no sync_type (so it passes no gate and calls no provider),
\* stores nothing and returns (True, 0).
C28_ResyncIsIdle ==
    result.op = "daily" /\ result.status = "ok" /\ result.n > 0 =>
        /\ Date(get_asset_last_candle(INTERVAL_DAY).open_time) = utc_date - 1
        /\ \A data \in Responses(utc_date), no_data \in BOOLEAN,
              time_of_day \in TimesOfDay :
                (no_data => data = <<>>) =>
                    LET again == sync_asset_outcome(data, no_data, time_of_day)
                    IN /\ again.type = "nosync"
                       /\ again.status = "ok"
                       /\ again.candles = <<>>

\* A stock that had candles before has just been synced on day 4, at midday:
\* the call stored three candles, the newest of them for day 3.
C28_Witness ==
    /\ asset_class = "Stock"
    /\ utc_date = 4
    /\ result.op = "daily" /\ result.status = "ok" /\ result.n = 3
    /\ ~result.first
    /\ result.type = DAILY_SYNC_COMPACT
    /\ Date(get_asset_last_candle(INTERVAL_DAY).open_time) = 3


\* C29: the candles a daily sync stores are all dated before the current UTC
\* date and, when a daily candle was stored before the call, after the date
\* of the latest of them.
C29_StoredDatesInRange ==
    [][(result = NoResult /\ result'.op = "daily") =>
          LET latest_candle == get_asset_last_candle(INTERVAL_DAY)
          IN \A c \in BagToSet(store' (-) store) :
                /\ Date(c.open_time) < utc_date
                /\ latest_candle # NoCandle
                      => Date(c.open_time) > Date(latest_candle.open_time)]_vars

\* The sync of day 4 was answered with bars of days 4, 3 and 1, the bar of
\* day 1 being stored already: it has stored the bar of day 3 alone.
C29_Witness ==
    /\ utc_date = 4
    /\ result.op = "daily" /\ result.status = "ok" /\ result.n = 1
    /\ ~result.first
    /\ result.data = Entries(<<4, 3, 1>>, 0, "none")
    /\ {Date(c.open_time) : c \in get_asset(INTERVAL_DAY)} = {1, 3}
    /\ BagCardinality(store) = 2


\* the loop over the response accepts no bar: every entry it comes to before
\* it ends is dated today
NoneAccepted(data, latest_candle, today) ==
    \A i \in 1..Len(data) :
        (\A j \in 1..(i - 1) : ~Breaks(data, j, latest_candle, today))
            => data[i].date = today \/ Breaks(data, i, latest_candle, today)

\* C30: a daily sync of an instrument with a latest candle L that accepts no
\* bar from the response stores one filler for every day after L's date and
\* before today, and nothing else, each with the close of L, and returns
\* (True, number of fillers).
C30_FillersFromLatest ==
    [][(/\ result = NoResult
        /\ result'.op = "daily"
        /\ result'.type # "nosync"
        /\ get_asset_last_candle(INTERVAL_DAY) # NoCandle
        /\ result'.data = <<>> => result'.status # "failed"
        /\ ~MalformedProcessed(result'.data, get_asset_last_candle(INTERVAL_DAY),
                               utc_date)
        /\ NoneAccepted(result'.data, get_asset_last_candle(INTERVAL_DAY), utc_date))
       => LET L == get_asset_last_candle(INTERVAL_DAY)
              new == store' (-) store
              days == (Date(L.open_time) + 1)..(utc_date - 1)
          IN /\ result'.status = "ok"
             /\ result'.n = Cardinality(days)
             /\ BagCardinality(new) = Cardinality(days)
             /\ \A d \in days :
                    \E c \in BagToSet(new) :
                        /\ Date(c.open_time) = d
                        /\ c.close = L.close
                        /\ c.open = None]_vars

\* The sync of day 4 was answered with the bar of day 1 alone, which was the
\* latest stored: it has stored the fillers of days 2 and 3.
C30_Witness ==
    /\ utc_date = 4
    /\ result.op = "daily" /\ result.status = "ok" /\ result.n = 2
    /\ ~result.first
    /\ result.data = Entries(<<1>>, 0, "none")
    /\ get_asset(INTERVAL_DAY) =
          {Bar(asset_class, 1),
           Filler(2 * INTERVAL_DAY + UtcOffset(asset_class), ProviderClose(1)),
           Filler(3 * INTERVAL_DAY + UtcOffset(asset_class), ProviderClose(1))}
    /\ BagCardinality(store) = 3

-----------------------------------------------------------------------------
(* The roll-ups, the live retry ceiling, the trends quota and the daily     *)
(* sync's corner cases: claims C31 - C40.                                   *)

\* the daily candles a roll-up of the week of Monday M, and of the month that
\* starts on day F, is about
WeekOf(M) == {c \in get_asset(INTERVAL_DAY) : M <= Date(c.open_time) /\ Date(c.open_time) < M + 7}
MonthFrom(F) == {c \in get_asset(INTERVAL_DAY) : F <= Date(c.open_time) /\ Date(c.open_time) < NextMonth(F)}

\* how many candles of a period are stored, and the candles of a period that
\* a step inserts
Stored(period) ==
    BagCardinality([c \in get_asset(period) |-> CopiesIn(c, store)])

Inserted(period) ==
    LET new == store' (-) store
    IN [c \in {x \in BagToSet(new) : x.interval = period} |-> CopiesIn(c, new)]

\* one candle for each period of a set, the candle of period p being of(p)
OnePerPeriod(periods, of(_)) ==
    [c \in {of(p) : p \in periods} |-> Cardinality({p \in periods : of(p) = c})]

\* the Mondays of the complete weeks a run has to cover, when the first week
\* to cover starts on Monday S and n weeks are covered already
WeeksDue(S, n) ==
    {M \in 0..utc_date : M >= S + 7 * n /\ (M - S) % 7 = 0 /\ M + 7 < utc_date}

WeekAggregate(M) == aggregate_candles(INTERVAL_WEEK, InOrder(WeekOf(M)))

\* C31: a run of the aggregation for an instrument whose weekly roll-up has a
\* daily candle to start from, on a Monday S, with n weekly candles stored,
\* inserts exactly one weekly candle for each complete week S + 7n, S + 7n + 7,
\* ... before today, each the aggregate of the stored daily candles of the
\* seven days of its week: the weeks after the n covered already, none
\* skipped and none covered again.
C31_WeeksConsecutive ==
    [][(result = NoResult /\ result'.op = "aggregation" /\ WeeklySeed # NoCandle) =>
          /\ Weekday(WeeklySeed.open_time) = 0
          /\ Inserted(INTERVAL_WEEK) =
                 OnePerPeriod(WeeksDue(Date(WeeklySeed.open_time), Stored(INTERVAL_WEEK)),
                              WeekAggregate)]_vars


\* the first days of the complete months a run has to cover, when the first
\* month to cover starts on day S and n months are covered already
MonthsDue(S, n) ==
    {F \in 0..utc_date : /\ DayOfMonth(F) = 1
                         /\ MonthOf(F) >= MonthOf(S) + n
                         /\ NextMonth(F) - 1 < utc_date}

MonthAggregate(F) == aggregate_candles(INTERVAL_MONTH, InOrder(MonthFrom(F)))

\* C32: a run of the aggregation for an instrument whose monthly roll-up has
\* a daily candle to start from, on the first day S of a month, with n
\* monthly candles stored, inserts exactly one monthly candle for each
\* complete calendar month from the n-th after that of S on, each the
\* aggregate of the stored daily candles of the month from its first day
\* through its last day: its close is that of the last bar of the month.
C32_MonthsWhole ==
    [][(result = NoResult /\ result'.op = "aggregation" /\ MonthlySeed # NoCandle) =>
          /\ DayOfMonth(Date(MonthlySeed.open_time)) = 1
          /\ Inserted(INTERVAL_MONTH) =
                 OnePerPeriod(MonthsDue(Date(MonthlySeed.open_time), Stored(INTERVAL_MONTH)),
                              MonthAggregate)]_vars


\* the sum of the volumes of the candles that have one
RECURSIVE SumOfVolumes(_)
SumOfVolumes(cs) ==
    IF cs = <<>> THEN 0
    ELSE (IF Head(cs).volume = None THEN 0 ELSE Head(cs).volume) + SumOfVolumes(Tail(cs))

\* C33: the volume of the candle aggregate_candles returns is None when none
\* of the given candles has a volume, and otherwise the sum of the volumes of
\* those that have one, which is 0 when each of them is 0.
C33_VolumeIsSum ==
    aggregate # NoCandle =>
        aggregate.volume =
            IF \A i \in 1..Len(members) : members[i].volume = None THEN None
            ELSE SumOfVolumes(members)


\* C34: in a call of a live syncer under the retry ceiling R =
\* CONFIG.MAX_RETRIES, at most R provider calls are issued; the process is
\* ended when, and only when, all R of them have failed and the wait after
\* the last is over; the call never raises; and a call that goes on with
\* data has issued one provider call more than have failed.
C34_LiveRetryCeiling ==
    /\ issued <= max_retries
    /\ exited => failures = max_retries
    /\ (failures = max_retries /\ pc[LiveThread] # "wait") => exited
    /\ pc[LiveThread] # "raised"
    /\ (calls[LiveThread] = 1 /\ pc[LiveThread] = "idle") => issued = failures + 1


\* C35: in a do_update of the Trends updater the gate of its provider has
\* granted at most as many requests as get_unused_quota() returned when the
\* do_update started, and no make_request of it is refused (the gate's test
\* never sends it to the path that sleeps), whether or not the minute changes
\* while the loop runs.
C35_TrendsWithinQuota ==
    /\ quota_at_start # None => given <= quota_at_start
    /\ pc[TrendsThread] \notin {"full", "sleep"}

\* The second do_update found a quota of 1 left by the first and has used
\* it; the minute changed while the first was in its loop.
C35_Witness ==
    /\ calls[TrendsThread] = 2
    /\ quota_at_start = 1
    /\ given = 1
    /\ count = 2
    /\ time = 1
    /\ pc[TrendsThread] = "idle"


\* C37: a daily sync of an instrument without a daily candle whose response
\* yields no accepted bar (it is empty, or holds the bar of today alone)
\* returns a result, (True, n) or (False, 0), does not raise, and leaves the
\* stored candles as they were.
C37_FirstSyncWithoutBars ==
    [][(/\ result = NoResult
        /\ result'.op = "daily"
        /\ get_asset(INTERVAL_DAY) = {}
        /\ ~MalformedProcessed(result'.data, NoCandle, utc_date)
        /\ NoneAccepted(result'.data, NoCandle, utc_date))
       => /\ result'.status \in {"ok", "failed"}
          /\ store' = store]_vars


\* C36: every daily sync_asset call comes to an end with each of its filler
\* loops having met its target day, whatever the order of the dates of the
\* response, a date twice or a date after today among them: none ends in the
\* overflow of a filler stamp that has passed its target.
C36_FillerLoopMeetsTarget ==
    result.op = "daily" => result.status # "overflow"


\* the dates of a response descend strictly, as the provider lists them
InProviderOrder(data) == \A i \in 1..(Len(data) - 1) : data[i].date > data[i + 1].date

\* C39: a daily sync that is answered with the days in the provider's order
\* stores a filler for a date only if the response has no entry of that
\* date, also when midnight UTC passes while the call runs.
C39_FillerOnlyWithoutBar ==
    [][(result = NoResult /\ result'.op = "daily" /\ InProviderOrder(result'.data))
       => \A c \in BagToSet(store' (-) store) :
              IsFiller(c) =>
                  \A i \in 1..Len(result'.data) :
                      result'.data[i].date # Date(c.open_time)]_vars


\* a daily candle, bar or filler, is stored for every day from a through b
DailyStoredFor(a, b) == \A d \in a..b : CandlesOn(INTERVAL_DAY, d) # {}

\* the complete weeks and months all of whose days have a stored daily candle,
\* none of them a bar
WeeksOfFillers ==
    {M \in 0..utc_date : /\ M % 7 = 0 /\ M + 7 < utc_date
                         /\ DailyStoredFor(M, M + 6)
                         /\ \A c \in WeekOf(M) : IsFiller(c)}

MonthsOfFillers ==
    {F \in 0..utc_date : /\ DayOfMonth(F) = 1 /\ MonthEnd(F) < utc_date
                         /\ DailyStoredFor(F, MonthEnd(F))
                         /\ \A c \in MonthFrom(F) : IsFiller(c)}

\* C38: a run of the aggregation inserts a weekly (monthly) candle only for
\* a week (month) every day of which has a stored daily candle: a candle
\* with an open_time only when that holds of the week (month) it opens in,
\* and a candle without one only when some complete week (month) has a
\* filler on each of its days.
C38_OnlyWholePeriods ==
    [][(result = NoResult /\ result'.op = "aggregation") =>
          /\ \A c \in BagToSet(Inserted(INTERVAL_WEEK)) :
                 IF c.open_time # None
                 THEN DailyStoredFor(MondayOf(Date(c.open_time)),
                                     MondayOf(Date(c.open_time)) + 6)
                 ELSE WeeksOfFillers # {}
          /\ \A c \in BagToSet(Inserted(INTERVAL_MONTH)) :
                 IF c.open_time # None
                 THEN DailyStoredFor(MonthStart(MonthOf(Date(c.open_time))),
                                     MonthEnd(Date(c.open_time)))
                 ELSE MonthsOfFillers # {}]_vars


\* C40: every stored weekly and monthly candle has an open_time, a low, a
\* high, an open and a close, none of them None, and its open_time is within
\* the days before today.
C40_AggregatesHaveFields ==
    \A c \in get_asset(INTERVAL_WEEK) \cup get_asset(INTERVAL_MONTH) :
        /\ c.open_time # None
        /\ c.low # None
        /\ c.high # None
        /\ c.open # None
        /\ c.close # None
        /\ Date(c.open_time) < utc_date

====
